---------------------------- MODULE Spec2Model ----------------------------
(***************************************************************************)
(* Pyrrhus: a budget-constrained orchestrator of model calls.  The module  *)
(* models the planner's DAG validator, the static allocator's downgrade    *)
(* cascade, the static executor and the dynamic ROI executor.              *)
(*                                                                         *)
(* Money is an integer number of units of 5e-8 dollar (UnitsPerDollar      *)
(* units make one dollar): every price of the tier catalog is a whole      *)
(* number of units per token, so the arithmetic of the code is exact here. *)
(* A text is a sequence of tokens; the empty text is << >>.                *)
(***************************************************************************)
EXTENDS Integers, Sequences, FiniteSets, TLC

(***************************************************************************)
(* Bounds of the model.                                                    *)
(***************************************************************************)
MaxNodes == 3

(***************************************************************************)
(* models.py: the tier catalog.                                            *)
(***************************************************************************)
UnitsPerDollar == 20000000

Tiers == {"fast", "verify", "deep"}

Complexities == {"low", "medium", "high"}

TIER_MAX_TOKENS(tier) ==
    CASE tier = "fast" -> 2048
      [] tier = "deep" -> 8192
      [] tier = "verify" -> 4096

ComplexityToTierAllFast(c) == "fast"

COMPLEXITY_TO_TIER(c) ==
    CASE c = "low" -> "fast"
      [] c = "medium" -> "verify"
      [] c = "high" -> "deep"

\* dollars per 1M input tokens 0.10, 1.25, 0.15 = units per token 2, 25, 3
TIER_PRICING_PER_1M_INPUT(tier) ==
    CASE tier = "fast" -> 2
      [] tier = "deep" -> 25
      [] tier = "verify" -> 3

\* dollars per 1M output tokens 0.40, 10.00, 0.60 = units per token 8, 200, 12
TIER_PRICING_PER_1M_OUTPUT(tier) ==
    CASE tier = "fast" -> 8
      [] tier = "deep" -> 200
      [] tier = "verify" -> 12

(***************************************************************************)
(* Generic helpers.                                                        *)
(***************************************************************************)
Min2(a, b) == IF a <= b THEN a ELSE b

Max2(a, b) == IF a >= b THEN a ELSE b

MinOf(S) == CHOOSE x \in S : \A y \in S : x <= y

MaxOf(S) == CHOOSE x \in S : \A y \in S : x >= y

RECURSIVE SumSeq(_)
SumSeq(s) == IF s = << >> THEN 0 ELSE Head(s) + SumSeq(Tail(s))

RECURSIVE SortedSeq(_)
\* the members of a finite set of integers, ascending
SortedSeq(S) == IF S = {} THEN << >> ELSE <<MinOf(S)>> \o SortedSeq(S \ {MinOf(S)})

Range(s) == {s[i] : i \in DOMAIN s}

Perms(n) == {p \in [1..n -> 1..n] : \A i, j \in 1..n : i # j => p[i] # p[j]}

(***************************************************************************)
(* models.py: TaskGraph, a list of SubTask(id, complexity, dependencies).  *)
(* The dependency list of a subtask is modelled by the set of its members, *)
(* read in ascending order.                                                *)
(***************************************************************************)
SubTask(id, complexity, dependencies) ==
    [id |-> id, complexity |-> complexity, dependencies |-> dependencies]

Ids(graph) == {graph[i].id : i \in DOMAIN graph}

\* subtask_map = {s.id: s for s in graph.subtasks}
subtask_map(graph, sid) == graph[CHOOSE i \in DOMAIN graph : graph[i].id = sid]

\* The listing of n subtasks with ids 1..n in the order p, with the dependencies
\* d[id] and the complexity cx[id] of each.
MkGraph(n, p, d, cx) == [i \in 1..n |-> SubTask(p[i], cx[p[i]], d[p[i]])]

(***************************************************************************)
(* agents/planner.py: _validate_dag.                                       *)
(***************************************************************************)
\* the first loop: a dependency that names no subtask, or the subtask itself
RefErrorNoDanglingCheck(graph) ==
    \E i \in DOMAIN graph : graph[i].id \in graph[i].dependencies

RefError(graph) ==
    \E i \in DOMAIN graph : \E dep \in graph[i].dependencies :
        dep \notin Ids(graph) \/ dep = graph[i].id

\* adj.get(node, [])
Adj(graph, node) ==
    IF node \in Ids(graph) THEN SortedSeq(subtask_map(graph, node).dependencies)
    ELSE << >>

RECURSIVE dfs(_, _, _, _)
RECURSIVE dfsEach(_, _, _, _)
\* dfs(node) with the sets in_stack and visited; "cycle" is the raise
dfs(graph, node, in_stack, visited) ==
    IF node \in in_stack THEN [cycle |-> TRUE, visited |-> visited]
    ELSE IF node \in visited THEN [cycle |-> FALSE, visited |-> visited]
    ELSE LET r == dfsEach(graph, Adj(graph, node), in_stack \cup {node}, visited)
         IN  IF r.cycle THEN r
             ELSE [cycle |-> FALSE, visited |-> r.visited \cup {node}]

\* the loop "for dep in ...: dfs(dep)", which also serves "for s in subtasks"
dfsEach(graph, nodes, in_stack, visited) ==
    IF nodes = << >> THEN [cycle |-> FALSE, visited |-> visited]
    ELSE LET r == dfs(graph, Head(nodes), in_stack, visited)
         IN  IF r.cycle THEN r
             ELSE dfsEach(graph, Tail(nodes), in_stack, r.visited)

ListedIds(graph) == [i \in DOMAIN graph |-> graph[i].id]

\* TRUE when _validate_dag returns, FALSE when it raises ValueError
_validate_dag(graph) ==
    /\ ~RefError(graph)
    /\ ~dfsEach(graph, ListedIds(graph), {}, {}).cycle


(***************************************************************************)
(* agents/executor.py, agents/dynamic_executor.py: _topological_sort       *)
(* (the two copies are the same code).                                     *)
(***************************************************************************)
\* dependents[dep]: the subtasks that list dep, in listing order
dependents(graph, sid) ==
    LET kids == SelectSeq(graph, LAMBDA s : sid \in s.dependencies)
    IN  [i \in DOMAIN kids |-> kids[i].id]

\* queue.sort()
SortQueueKeepOrder(queue) == queue

SortQueue(queue) == SortedSeq(Range(queue))

RECURSIVE VisitChildren(_, _, _)
\* for child in dependents[sid]: in_degree[child] -= 1; append when it is 0
VisitChildren(children, queue, in_degree) ==
    IF children = << >> THEN [queue |-> queue, in_degree |-> in_degree]
    ELSE LET child == Head(children)
             deg == [in_degree EXCEPT ![child] = @ - 1]
         IN  VisitChildren(Tail(children),
                           IF deg[child] = 0 THEN Append(queue, child) ELSE queue,
                           deg)

RECURSIVE KahnLoop(_, _, _, _)
\* while queue: ...
KahnLoop(graph, queue, in_degree, order) ==
    IF queue = << >> THEN order
    ELSE LET sorted == SortQueue(queue)
             sid == Head(sorted)
             r == VisitChildren(dependents(graph, sid), Tail(sorted), in_degree)
         IN  KahnLoop(graph, r.queue, r.in_degree, Append(order, sid))

_topological_sort(graph) ==
    LET in_degree == [sid \in Ids(graph) |->
                        Cardinality(subtask_map(graph, sid).dependencies)]
        queue == SelectSeq(ListedIds(graph), LAMBDA sid : in_degree[sid] = 0)
    IN  KahnLoop(graph, queue, in_degree, << >>)

(***************************************************************************)
(* agents/allocator.py: _estimate_cost and _criticality_order.             *)
(***************************************************************************)
\* tokens * price / 1_000_000 dollars, in units
_estimate_cost(tokens, tier) == tokens * TIER_PRICING_PER_1M_OUTPUT(tier)

\* depth_cache is a dict: here the sequence of its items in insertion order
CacheHas(depth_cache, sid) == \E i \in DOMAIN depth_cache : depth_cache[i].sid = sid

CacheGet(depth_cache, sid) ==
    depth_cache[CHOOSE i \in DOMAIN depth_cache : depth_cache[i].sid = sid].d

RECURSIVE max_depth(_, _, _)
RECURSIVE max_depth_each(_, _, _)
\* max_depth(sid): the cache after the call
max_depth(graph, sid, depth_cache) ==
    IF CacheHas(depth_cache, sid) THEN depth_cache
    ELSE LET children == dependents(graph, sid)
         IN  IF children = << >>
             THEN Append(depth_cache, [sid |-> sid, d |-> 0])
             ELSE LET c == max_depth_each(graph, children, depth_cache)
                      d == 1 + MaxOf({CacheGet(c, ch) : ch \in Range(children)})
                  IN  Append(c, [sid |-> sid, d |-> d])

max_depth_each(graph, sids, depth_cache) ==
    IF sids = << >> THEN depth_cache
    ELSE max_depth_each(graph, Tail(sids), max_depth(graph, Head(sids), depth_cache))

DepthCache(graph) == max_depth_each(graph, ListedIds(graph), << >>)

RECURSIVE SortByDepth(_, _)
\* sorted(depth_cache, key=depth): ascending depth, equal depths in cache order
SortByDepth(depth_cache, d) ==
    IF \A i \in DOMAIN depth_cache : depth_cache[i].d < d THEN << >>
    ELSE LET same == SelectSeq(depth_cache, LAMBDA e : e.d = d)
         IN  [i \in DOMAIN same |-> same[i].sid] \o SortByDepth(depth_cache, d + 1)

RECURSIVE SortByDepthDescending(_, _)
SortByDepthDescending(depth_cache, d) ==
    IF \A i \in DOMAIN depth_cache : depth_cache[i].d < d THEN << >>
    ELSE LET same == SelectSeq(depth_cache, LAMBDA e : e.d = d)
         IN  SortByDepthDescending(depth_cache, d + 1) \o [i \in DOMAIN same |-> same[i].sid]

CritSortMostCriticalFirst(depth_cache) == SortByDepthDescending(depth_cache, 0)

CritSort(depth_cache) == SortByDepth(depth_cache, 0)

_criticality_order(graph) == CritSort(DepthCache(graph))

\* the critical depth of a subtask: the longest path to a sink
CriticalDepth(graph, sid) == CacheGet(DepthCache(graph), sid)

(***************************************************************************)
(* agents/allocator.py: AllocatorAgent.allocate.  allocs maps a subtask id *)
(* to its SubTaskAllocation; downgrades is the list downgrades_applied,    *)
(* one record per message.                                                 *)
(***************************************************************************)
TIER_MODELS(tier) ==
    CASE tier = "fast" -> "gemini-2.5-flash-lite"
      [] tier = "deep" -> "gemini-2.5-pro"
      [] tier = "verify" -> "gemini-2.5-flash"

TOKEN_FLOOR == 128

SubTaskAllocation(sid, tier, max_tokens, cost, skipped) ==
    [subtask_id |-> sid, tier |-> tier, model |-> TIER_MODELS(tier),
     max_tokens |-> max_tokens, estimated_cost_dollars |-> cost, skipped |-> skipped]

RECURSIVE SumCost(_, _)
SumCost(allocs, S) ==
    IF S = {} THEN 0
    ELSE LET sid == CHOOSE x \in S : TRUE
         IN  allocs[sid].estimated_cost_dollars + SumCost(allocs, S \ {sid})

\* sum(a.estimated_cost_dollars for a in allocs.values())
_total_cost(allocs) == SumCost(allocs, DOMAIN allocs)

_set_tier(alloc, tier) ==
    SubTaskAllocation(alloc.subtask_id, tier, TIER_MAX_TOKENS(tier),
                      _estimate_cost(TIER_MAX_TOKENS(tier), tier), alloc.skipped)

\* the initial mapping: the default tier of the complexity, at its default cap
InitialAllocs(graph) ==
    [sid \in Ids(graph) |->
        LET tier == COMPLEXITY_TO_TIER(subtask_map(graph, sid).complexity)
        IN  SubTaskAllocation(sid, tier, TIER_MAX_TOKENS(tier),
                              _estimate_cost(TIER_MAX_TOKENS(tier), tier), FALSE)]

\* the body of one iteration of pass 1, 2 or 3 on subtask sid
PassBody(pass, st, sid) ==
    LET a == st.allocs[sid]
    IN  CASE pass = 1 /\ a.tier = "deep" /\ ~a.skipped ->
                [allocs |-> [st.allocs EXCEPT ![sid] = _set_tier(a, "verify")],
                 downgrades |-> Append(st.downgrades,
                                       [sid |-> sid, event |-> "Deep -> Verify"])]
          [] pass = 2 /\ a.tier = "deep" /\ ~a.skipped ->
                [allocs |-> [st.allocs EXCEPT ![sid] = _set_tier(a, "fast")],
                 downgrades |-> Append(st.downgrades,
                                       [sid |-> sid, event |-> "Deep -> Fast"])]
          [] pass = 3 /\ a.tier = "verify" /\ ~a.skipped ->
                [allocs |-> [st.allocs EXCEPT ![sid] =
                                [a EXCEPT !.skipped = TRUE, !.max_tokens = 0,
                                          !.estimated_cost_dollars = 0]],
                 downgrades |-> Append(st.downgrades,
                                       [sid |-> sid, event |-> "skipped"])]
          [] OTHER -> st

RECURSIVE PassLoopFirstPassOnce(_, _, _, _)
\* the loop with a first pass that stops after its first subtask
PassLoopFirstPassOnce(pass, todo, st, remaining) ==
    IF todo = << >> THEN st
    ELSE IF _total_cost(st.allocs) <= remaining THEN st
    ELSE IF pass = 1 THEN PassBody(pass, st, Head(todo))
    ELSE PassLoopFirstPassOnce(pass, Tail(todo), PassBody(pass, st, Head(todo)),
                               remaining)

RECURSIVE PassLoop(_, _, _, _)
\* for sid in crit_order: if total <= remaining: break; ...
PassLoop(pass, todo, st, remaining) ==
    IF todo = << >> THEN st
    ELSE IF _total_cost(st.allocs) <= remaining THEN st
    ELSE PassLoop(pass, Tail(todo), PassBody(pass, st, Head(todo)), remaining)

\* max(128, int(a.max_tokens * scale)) with scale = remaining / current_cost
ScaledTokensNoFloor(max_tokens, remaining, current_cost) ==
    (max_tokens * remaining) \div current_cost

ScaledTokensInverted(max_tokens, remaining, current_cost) ==
    Max2(TOKEN_FLOOR, (max_tokens * current_cost) \div remaining)

ScaledTokens(max_tokens, remaining, current_cost) ==
    Max2(TOKEN_FLOOR, (max_tokens * remaining) \div current_cost)

\* pass 4: proportional reduction of max_tokens
Pass4(st, remaining) ==
    IF _total_cost(st.allocs) > remaining
    THEN LET current_cost == _total_cost(st.allocs)
         IN  IF current_cost > 0
             THEN [allocs |->
                    [sid \in DOMAIN st.allocs |->
                        LET a == st.allocs[sid]
                            new_max == ScaledTokens(a.max_tokens, remaining, current_cost)
                        IN  IF a.skipped THEN a
                            ELSE [a EXCEPT !.max_tokens = new_max,
                                           !.estimated_cost_dollars =
                                               _estimate_cost(new_max, a.tier)]],
                   downgrades |-> Append(st.downgrades,
                                         [sid |-> 0, event |-> "scaled"])]
             ELSE st
    ELSE st

\* remaining = budget_dollars - spent_dollars
RemainingIgnoringSpent(budget, spent) == budget

Remaining(budget, spent) == budget - spent

\* the ExecutionPlan allocate returns when remaining > 0
allocate(graph, budget_dollars, spent_dollars) ==
    LET remaining == Remaining(budget_dollars, spent_dollars)
        crit_order == _criticality_order(graph)
        s0 == [allocs |-> InitialAllocs(graph), downgrades |-> << >>]
        s1 == PassLoop(1, crit_order, s0, remaining)
        s2 == PassLoop(2, crit_order, s1, remaining)
        s3 == PassLoop(3, crit_order, s2, remaining)
        s4 == Pass4(s3, remaining)
        ordered_allocs == [i \in DOMAIN graph |-> s4.allocs[graph[i].id]]
        total_tokens == SumSeq([i \in DOMAIN graph |-> ordered_allocs[i].max_tokens])
        total_cost == SumSeq([i \in DOMAIN graph |->
                                ordered_allocs[i].estimated_cost_dollars])
    IN  [allocations |-> ordered_allocs,
         total_estimated_tokens |-> total_tokens,
         total_estimated_cost_dollars |-> total_cost,
         budget_tokens |-> total_tokens,
         budget_dollars |-> budget_dollars,
         downgrades_applied |-> s4.downgrades]

(***************************************************************************)
(* The state of one pipeline (main.py _run_single, batch_runner.py          *)
(* run_single, dashboard/app.py run): the planner's response, the graph it *)
(* hands on, the allocator's plan and the locals of the executor's loop.   *)
(***************************************************************************)
VARIABLES
    pc,                \* the stage of the pipeline
    mode,              \* "static" (allocator + executor) or "dynamic"
    response,          \* the TaskGraph parsed from the planner model's reply
    graph,             \* planner_result.graph, << >> until plan() has returned
    planner_cost,      \* the planner's own cost
    budget_dollars,
    plan,              \* the ExecutionPlan, << >> until allocate has returned
    history,           \* batch: the plans of the earlier budgets of this graph
    order, pos,        \* execute: the topological order and the loop index
    outputs, results, calls,
    surplus_pool, total_spent, upstream_spent,
    available, prompt, tier_idx, attempts, decisions, subtask_cost,
    all_roi_decisions, total_upgrades,
    eval_cost,         \* evaluator.total_cost_dollars
    deliverable, report,
    entry,             \* the entry point that runs the pipeline
    store,             \* the rows of the trace store's tables
    trace_write,       \* how the run's save_trace call ended
    delivered,         \* what the caller of the entry point got back
    run_id_unique,     \* the runs table rejects a second row with a run_id
    batch_budgets,     \* run_batch: the budgets it was called with
    futures,           \* run_batch: the submitted runs, in submission order
    traces,            \* run_batch: the list it collects and returns
    event_q,           \* compare: the queue the two worker threads post to
    stream,            \* compare: the server-sent events yielded so far
    done_sides,        \* compare: the sides whose thread_done was taken
    side_results,      \* compare: whether each side's deliverable is non-empty
    threads            \* compare: where each worker thread is

planVars == <<response, graph, planner_cost>>

allocVars == <<budget_dollars, plan, history>>

execVars == <<order, pos, outputs, results, calls, surplus_pool, total_spent,
              upstream_spent, deliverable, report>>

dynVars == <<available, prompt, tier_idx, attempts, decisions, subtask_cost,
             all_roi_decisions, total_upgrades, eval_cost>>

batchVars == <<batch_budgets, futures, traces>>

traceVars == <<entry, store, trace_write, delivered, run_id_unique, batchVars>>

compareVars == <<event_q, stream, done_sides, side_results, threads>>

vars == <<pc, mode, planVars, allocVars, execVars, dynVars, traceVars, compareVars>>

\* the values before the stage that sets them has run
NoGraph == << >>

NoPlan == << >>

\* SubTaskResult.prompt defaults to ""
NoPrompt == [subtask |-> 0, context |-> << >>]

ExecIdle ==
    /\ order = << >> /\ pos = 0 /\ outputs = << >> /\ results = << >>
    /\ calls = << >> /\ surplus_pool = 0 /\ total_spent = 0 /\ upstream_spent = 0
    /\ deliverable = << >> /\ report = << >>

NoThreads == [pyrrhus |-> [pc |-> "none"], baseline |-> [pc |-> "none"]]

CompareIdle ==
    /\ event_q = << >> /\ stream = << >> /\ done_sides = {}
    /\ side_results = << >> /\ threads = NoThreads

TraceIdle ==
    /\ entry = "none" /\ store = << >> /\ trace_write = "none"
    /\ delivered = "nothing" /\ run_id_unique = FALSE
    /\ batch_budgets = << >> /\ futures = << >> /\ traces = << >>
    /\ CompareIdle

DynIdle ==
    /\ available = 0 /\ prompt = NoPrompt /\ tier_idx = 0 /\ attempts = << >>
    /\ decisions = << >> /\ subtask_cost = 0 /\ all_roi_decisions = << >>
    /\ total_upgrades = 0 /\ eval_cost = 0

(***************************************************************************)
(* The inputs of the model.                                                *)
(***************************************************************************)
\* what a planner model may reply: ids 1..n in any listing order, dependencies
\* that may name the subtask itself, each other in a cycle, or the id n+1 that
\* no subtask has
IsReply(g) ==
    \E n \in 1..MaxNodes : \E p \in Perms(n) : \E d \in [1..n -> SUBSET (1..(n + 1))] :
        \E c \in Complexities : g = MkGraph(n, p, d, [i \in 1..n |-> c])

\* the graphs plan() returns, with complexities among cxs
IsValidGraph(g, cxs) ==
    /\ \E n \in 1..MaxNodes : \E p \in Perms(n) : \E d \in [1..n -> SUBSET (1..n)] :
            \E cx \in [1..n -> cxs] : g = MkGraph(n, p, d, cx)
    /\ _validate_dag(g)

\* main.py _planner_cost_dollars: the planner's usage at Verify prices
_planner_cost_dollars(prompt_tokens, completion_tokens) ==
    prompt_tokens * TIER_PRICING_PER_1M_INPUT("verify")
        + completion_tokens * TIER_PRICING_PER_1M_OUTPUT("verify")

\* the planner's reply used 500 prompt and 375 completion tokens
PlannerCostUnits == _planner_cost_dollars(500, 375)

\* remaining budgets, in units: from far above three Deep calls to below the
\* cost of one call at the 128-token floor
Remainings == {5000000, 2000000, 100000, 50000, 20000, 9999, 500}

(***************************************************************************)
(* agents/planner.py: PlannerAgent.plan.                                   *)
(***************************************************************************)
PlannerPlan ==
    /\ pc = "start"
    /\ IsReply(response')
    /\ planner_cost' = PlannerCostUnits
    /\ IF _validate_dag(response')
       THEN graph' = response' /\ pc' = "planned"
       ELSE graph' = NoGraph /\ pc' = "planner_invalid"
    /\ UNCHANGED <<compareVars, traceVars, mode, allocVars, execVars, dynVars>>

(***************************************************************************)
(* main.py _run_single, batch_runner.py run_single: the call of allocate.  *)
(***************************************************************************)
\* an allocator that writes the tier it chose back into the graph it was given
AllocateRewritingGraph(budgets) ==
    /\ pc = "planned" /\ mode = "static"
    /\ \E b \in budgets :
        /\ budget_dollars' = b
        /\ IF Remaining(b, planner_cost) <= 0
           THEN plan' = NoPlan /\ pc' = "budget_exhausted" /\ graph' = graph
           ELSE /\ plan' = allocate(graph, b, planner_cost)
                /\ pc' = "allocated"
                /\ graph' = [i \in DOMAIN graph |->
                        [graph[i] EXCEPT !.complexity =
                            IF plan'.allocations[i].tier = "fast" THEN "low"
                            ELSE IF plan'.allocations[i].tier = "verify" THEN "medium"
                            ELSE "high"]]
    /\ UNCHANGED <<compareVars, traceVars, mode, response, planner_cost, history, execVars, dynVars>>

Allocate(budgets) ==
    /\ pc = "planned" /\ mode = "static"
    /\ \E b \in budgets :
        /\ budget_dollars' = b
        /\ IF Remaining(b, planner_cost) <= 0
           THEN plan' = NoPlan /\ pc' = "budget_exhausted"
           ELSE plan' = allocate(graph, b, planner_cost) /\ pc' = "allocated"
    /\ UNCHANGED <<compareVars, traceVars, mode, planVars, history, execVars, dynVars>>

\* batch_runner.py run_batch: the next budget of the sweep, on the same graph
MaxRuns == 2

NextBudget ==
    /\ pc = "allocated"
    /\ Len(history) + 1 < MaxRuns
    /\ history' = Append(history, plan)
    /\ plan' = NoPlan
    /\ pc' = "planned"
    /\ UNCHANGED <<compareVars, traceVars, mode, planVars, budget_dollars, execVars, dynVars>>

(***************************************************************************)
(* The planner alone: every reply, valid or not, and the hand-over.        *)
(***************************************************************************)
InitPlan ==
    /\ pc = "start" /\ mode = "static"
    /\ response = NoGraph /\ graph = NoGraph /\ planner_cost = 0
    /\ budget_dollars = 0 /\ plan = NoPlan /\ history = << >>
    /\ ExecIdle /\ DynIdle /\ TraceIdle

NextPlan ==
    \/ PlannerPlan
    \/ Allocate({PlannerCostUnits + 100000})

SpecPlan == InitPlan /\ [][NextPlan]_vars

(***************************************************************************)
(* The allocator: a sweep of budgets over one validated graph.             *)
(***************************************************************************)
InitAlloc ==
    /\ pc = "planned" /\ mode = "static"
    /\ IsValidGraph(graph, Complexities) /\ response = graph
    /\ planner_cost = PlannerCostUnits
    /\ budget_dollars = 0 /\ plan = NoPlan /\ history = << >>
    /\ ExecIdle /\ DynIdle /\ TraceIdle

NextAlloc ==
    \/ Allocate({PlannerCostUnits + r : r \in Remainings \cup {0, 0 - 2000}})

SpecAlloc == InitAlloc /\ [][NextAlloc]_vars

(***************************************************************************)
(* batch_runner.py: the same graph allocated under two budgets in turn.    *)
(***************************************************************************)
NextSweep ==
    \/ Allocate({PlannerCostUnits + r : r \in Remainings \cup {0, 0 - 2000}})
    \/ NextBudget

SpecSweep == InitAlloc /\ [][NextSweep]_vars

(***************************************************************************)
(* The model provider.  A reply is its text and the usage it reports.  A   *)
(* text is a sequence of tokens; the text a call for subtask sid at a tier *)
(* produces is the one token that names both.  The completion tokens are   *)
(* half or all of the cap (max_output_tokens) the call was given.          *)
(***************************************************************************)
Tok(sid, tier) == [sid |-> sid, tier |-> tier]

Replies(sid, tier, cap, env) ==
    {[text |-> IF nonempty THEN <<Tok(sid, tier)>> ELSE << >>,
      prompt_tokens |-> u.prompt_tokens,
      completion_tokens |-> (cap * u.halves) \div 2] :
        nonempty \in env.texts, u \in env.usages}

\* replies of one size, empty or not; a judge that is always satisfied
LeanEnv == [texts |-> {TRUE, FALSE},
            usages |-> {[prompt_tokens |-> 200, halves |-> 1]},
            scores |-> {90},
            judge_fails |-> {FALSE},
            judge |-> [prompt_tokens |-> 300, completion_tokens |-> 40]]

\* a short reply to a short prompt and a reply that fills the cap to a long
\* prompt; a judge that scores below and at the threshold
RichEnv == [texts |-> {TRUE},
            usages |-> {[prompt_tokens |-> 200, halves |-> 1],
                        [prompt_tokens |-> 1500, halves |-> 2]},
            scores |-> {20, 40, 60},
            judge_fails |-> {FALSE, TRUE},
            judge |-> [prompt_tokens |-> 300, completion_tokens |-> 40]]

(***************************************************************************)
(* agents/executor.py and agents/dynamic_executor.py: the shared helpers.  *)
(***************************************************************************)
\* outputs.get(did, "")
OutputsGet(outs, did) == IF did \in DOMAIN outs THEN outs[did] ELSE << >>

\* outputs[sid] = text
OutputsPut(outs, sid, text) ==
    [x \in DOMAIN outs \cup {sid} |-> IF x = sid THEN text ELSE outs[x]]

\* the prompt: the subtask, and for each dependency with a non-empty output
\* the section "--- Subtask {did} output ---" with that output
ContextOf(dep_ids, outs) ==
    LET had == SelectSeq(dep_ids, LAMBDA did : OutputsGet(outs, did) # << >>)
    IN  [i \in DOMAIN had |-> [dep |-> had[i], text |-> OutputsGet(outs, had[i])]]

\* a prompt with a section for every dependency, with or without an output
_build_context_every_dependency(sid, dep_ids, outs) ==
    [subtask |-> sid,
     context |-> [i \in DOMAIN dep_ids |->
                     [dep |-> dep_ids[i], text |-> OutputsGet(outs, dep_ids[i])]]]

_build_context_without_outputs(sid, dep_ids, outs) ==
    [subtask |-> sid, context |-> << >>]

_build_context(sid, dep_ids, outs) ==
    [subtask |-> sid, context |-> ContextOf(dep_ids, outs)]

\* _subtask_cost and _actual_cost: input and output tokens at the tier's prices
_subtask_cost(prompt_tokens, completion_tokens, tier) ==
    prompt_tokens * TIER_PRICING_PER_1M_INPUT(tier)
        + completion_tokens * TIER_PRICING_PER_1M_OUTPUT(tier)

\* the join of the non-empty outputs in execution order
SEP == [sid |-> 0, tier |-> "blank line"]

NO_OUTPUT == <<[sid |-> 0, tier |-> "(No output produced)"]>>

RECURSIVE JoinWithoutSeparator(_)
JoinWithoutSeparator(parts) ==
    IF Len(parts) = 1 THEN parts[1]
    ELSE parts[1] \o JoinWithoutSeparator(Tail(parts))

RECURSIVE Join(_)
Join(parts) ==
    IF Len(parts) = 1 THEN parts[1]
    ELSE parts[1] \o <<SEP>> \o Join(Tail(parts))

_pick_deliverable(ord, outs) ==
    LET have == SelectSeq(ord, LAMBDA sid : sid \in DOMAIN outs /\ outs[sid] # << >>)
        parts == [i \in DOMAIN have |-> outs[have[i]]]
    IN  IF parts = << >> THEN NO_OUTPUT ELSE Join(parts)

SubTaskResult(sid, tier, budgeted, p_tok, c_tok, cost, surplus, output, skipped, prm, atts, decs, best_idx) ==
    [subtask_id |-> sid, tier |-> tier, model |-> TIER_MODELS(tier),
     tokens_budgeted |-> budgeted, prompt_tokens |-> p_tok,
     completion_tokens |-> c_tok, total_tokens |-> p_tok + c_tok,
     cost_dollars |-> cost, surplus |-> surplus, output |-> output,
     skipped |-> skipped, prompt |-> prm, attempts |-> atts,
     roi_decisions |-> decs, final_attempt_index |-> best_idx]

\* a model invocation, as the provider sees it; at is the number of results
\* recorded when it was made, judge what became of the judge's call on its reply
Call(sid, tier, max_tokens, prm) ==
    [sid |-> sid, tier |-> tier, max_tokens |-> max_tokens, prompt |-> prm,
     at |-> Len(results), judge |-> "none"]

(***************************************************************************)
(* agents/executor.py: ExecutorAgent.execute, one action per iteration of  *)
(* "for sid in order".                                                     *)
(***************************************************************************)
AllocIndex(sid) ==
    CHOOSE i \in DOMAIN plan.allocations : plan.allocations[i].subtask_id = sid

\* a surplus that returns the whole cap to the pool
SurplusIgnoringUse(max_tokens, completion_tokens) == max_tokens

\* surplus = max(0, alloc.max_tokens - completion_tokens)
Surplus(max_tokens, completion_tokens) == Max2(0, max_tokens - completion_tokens)

\* a boost that hands the node the whole pool
BoostWholePool(pool, max_tokens, tier_max) == pool

\* the opportunistic boost: what the node takes from the surplus pool
Boost(pool, max_tokens, tier_max) ==
    IF pool > 0 /\ max_tokens < tier_max
    THEN Min2(pool, tier_max - max_tokens)
    ELSE 0

ExecBegin ==
    /\ pc = "allocated"
    /\ order' = _topological_sort(graph)
    /\ pos' = 1
    /\ outputs' = << >> /\ results' = << >>
    /\ surplus_pool' = 0
    /\ total_spent' = planner_cost
    /\ pc' = "exec"
    /\ UNCHANGED <<compareVars, traceVars, mode, planVars, allocVars, calls, upstream_spent, deliverable,
                   report, dynVars>>

ExecSkipped ==
    /\ pc = "exec" /\ pos <= Len(order)
    /\ LET sid == order[pos]
           alloc == plan.allocations[AllocIndex(sid)]
       IN  /\ alloc.skipped
           /\ results' = Append(results,
                    SubTaskResult(sid, alloc.tier, 0, 0, 0, 0, 0, << >>, TRUE,
                                  NoPrompt, << >>, << >>, 0))
    /\ pos' = pos + 1
    /\ UNCHANGED <<compareVars, traceVars, pc, mode, planVars, allocVars, order, outputs, calls, surplus_pool,
                   total_spent, upstream_spent, deliverable, report, dynVars>>

ExecNode(env) ==
    /\ pc = "exec" /\ pos <= Len(order)
    /\ LET sid == order[pos]
           k == AllocIndex(sid)
           alloc == plan.allocations[k]
           subtask == subtask_map(graph, sid)
           tier_max == TIER_MAX_TOKENS(alloc.tier)
           boost == Boost(surplus_pool, alloc.max_tokens, tier_max)
           max_tokens == alloc.max_tokens + boost
           prm == _build_context(sid, SortedSeq(subtask.dependencies), outputs)
       IN  /\ ~alloc.skipped
           /\ plan' = [plan EXCEPT !.allocations[k].max_tokens = max_tokens]
           /\ calls' = Append(calls, Call(sid, alloc.tier, max_tokens, prm))
           /\ \E r \in Replies(sid, alloc.tier, max_tokens, env) :
                LET cost == _subtask_cost(r.prompt_tokens, r.completion_tokens,
                                          alloc.tier)
                    surplus == Surplus(max_tokens, r.completion_tokens)
                IN  /\ outputs' = OutputsPut(outputs, sid, r.text)
                    /\ total_spent' = total_spent + cost
                    /\ surplus_pool' = (surplus_pool - boost) + surplus
                    /\ results' = Append(results,
                            SubTaskResult(sid, alloc.tier, max_tokens, r.prompt_tokens,
                                          r.completion_tokens, cost, surplus, r.text,
                                          FALSE, prm, << >>, << >>, 0))
    /\ pos' = pos + 1
    /\ UNCHANGED <<compareVars, traceVars, pc, mode, planVars, budget_dollars, history, order, upstream_spent,
                   deliverable, report, dynVars>>

\* the share of the budget that is left, as a percentage
UtilizationOfRemaining(spent, budget) ==
    IF budget > 0 THEN [num |-> (budget - spent) * 100, den |-> budget]
    ELSE [num |-> 0, den |-> 1]

\* utilization = (total_spent / budget * 100) if budget > 0 else 0.0, as the
\* fraction num / den
utilization(spent, budget) ==
    IF budget > 0 THEN [num |-> spent * 100, den |-> budget]
    ELSE [num |-> 0, den |-> 1]

\* ExecutorAgent._build_report
StaticReport ==
    [budget_dollars |-> plan.budget_dollars,
     spent_dollars |-> total_spent,
     remaining_dollars |-> plan.budget_dollars - total_spent,
     utilization_pct |-> utilization(total_spent, plan.budget_dollars),
     subtask_results |-> results,
     subtasks_skipped |-> Len(SelectSeq(results, LAMBDA r : r.skipped)),
     subtasks_downgraded |-> Len(plan.downgrades_applied),
     downgrades_applied |-> plan.downgrades_applied,
     total_subtasks |-> Len(graph),
     total_upgrades |-> 0, roi_decisions |-> << >>, evaluation_cost_dollars |-> 0]

ExecReport ==
    /\ pc = "exec" /\ pos > Len(order)
    /\ deliverable' = _pick_deliverable(order, outputs)
    /\ report' = StaticReport
    /\ pc' = "done"
    /\ UNCHANGED <<compareVars, traceVars, mode, planVars, allocVars, order, pos, outputs, results, calls,
                   surplus_pool, total_spent, upstream_spent, dynVars>>

(***************************************************************************)
(* agents/dynamic_executor.py.  Scores and lifts are in tenths of a point. *)
(***************************************************************************)
TIER_LADDER == <<"fast", "verify", "deep">>

EXPECTED_LIFT(tier, next_tier) ==
    CASE tier = "fast" /\ next_tier = "verify" -> 20
      [] tier = "verify" /\ next_tier = "deep"  -> 15
      [] tier = "fast" /\ next_tier = "deep"    -> 30
      [] OTHER                                  -> 20

QUALITY_THRESHOLD == 60

MIN_ROI == 50

SYNTHESIS_RESERVE_PERCENT == 35

\* the default cap priced as input tokens
EstimateAtInputPrice(tier) == TIER_MAX_TOKENS(tier) * TIER_PRICING_PER_1M_INPUT(tier)

\* _estimate_cost(tier): the worst case of one call at the tier's default cap
DynEstimate(tier) == TIER_MAX_TOKENS(tier) * TIER_PRICING_PER_1M_OUTPUT(tier)

\* the provider's bill with the judge's bill for the attempt added to it
ActualCostWithJudge(p_tok, c_tok, tier) ==
    p_tok * TIER_PRICING_PER_1M_INPUT(tier) + c_tok * TIER_PRICING_PER_1M_OUTPUT(tier)
        + (300 * 2 + 40 * 8)

_actual_cost(p_tok, c_tok, tier) ==
    p_tok * TIER_PRICING_PER_1M_INPUT(tier) + c_tok * TIER_PRICING_PER_1M_OUTPUT(tier)

remaining_total(budget, cost) == budget - cost

NoReserve(total) == 0

synthesis_reserve(total) == (total * SYNTHESIS_RESERVE_PERCENT) \div 100

upstream_budget(total) == total - synthesis_reserve(total)

final_id(ord) == IF ord = << >> THEN 0 ELSE ord[Len(ord)]

AvailableIgnoringUpstream(is_final, budget, spent, upstream, up_spent) ==
    budget - spent

Available(is_final, budget, spent, upstream, up_spent) ==
    IF is_final THEN budget - spent
    ELSE Min2(upstream - up_spent, budget - spent)

RoiNeverEnough(lift, upgrade_est) == FALSE

RoiAlwaysEnough(lift, upgrade_est) == TRUE

\* roi = lift / upgrade_est >= MIN_ROI, with the lift in tenths and the
\* estimate in units of 1 / UnitsPerDollar dollar
RoiAtLeastMin(lift, upgrade_est) ==
    upgrade_est > 0 /\ lift * UnitsPerDollar >= MIN_ROI * 10 * upgrade_est

\* the decision that upgrades on the ROI alone
DecisionTypeIgnoringBudget(roi_ok, upgrade_est, avail) ==
    IF roi_ok THEN "upgrade"
    ELSE IF upgrade_est > avail THEN "budget_exceeded"
    ELSE "accept"

\* the label that asks about the ROI before it asks about the money
DecisionTypeRoiFirst(roi_ok, upgrade_est, avail) ==
    IF roi_ok /\ upgrade_est <= avail THEN "upgrade"
    ELSE IF ~roi_ok THEN "accept"
    ELSE "budget_exceeded"

\* the decision after an attempt below the threshold: upgrade, or else the
\* label of the ROIDecision recorded before the break
DecisionType(roi_ok, upgrade_est, avail) ==
    IF roi_ok /\ upgrade_est <= avail THEN "upgrade"
    ELSE IF upgrade_est > avail THEN "budget_exceeded"
    ELSE "accept"

\* EvaluatorAgent.quick_score: the judge's score of one output.  An empty
\* output is scored 0, and so is an output whose judge call failed.
quick_score(output_text, env) ==
    {[score |-> sc, judge |-> "scored"] :
        sc \in IF output_text = << >> THEN {0} ELSE env.scores}
    \cup {[score |-> 0, judge |-> "failed"] : f \in env.judge_fails \ {FALSE}}

\* EvaluatorAgent._evaluate: the judge's own bill, at its own prices
JudgeCost(env) == env.judge.prompt_tokens * 2 + env.judge.completion_tokens * 8

SubTaskAttempt(tier, output, score, cost, p_tok, c_tok) ==
    [tier |-> tier, model |-> TIER_MODELS(tier), output |-> output,
     quality_score |-> score, cost_dollars |-> cost, prompt_tokens |-> p_tok,
     completion_tokens |-> c_tok]

ROIDecision(sid, tier, score, next_tier, upgrade_est, lift, decision) ==
    [subtask_id |-> sid, current_tier |-> tier, current_quality |-> score,
     proposed_tier |-> next_tier, upgrade_cost_estimate |-> upgrade_est,
     expected_quality_lift |-> lift, decision |-> decision]

LastIndex(atts) == Len(atts)

\* attempts.index(max(attempts, key=quality_score)): the first attempt with
\* the highest score, counted from 1
BestIndex(atts) ==
    CHOOSE i \in DOMAIN atts :
        /\ \A j \in DOMAIN atts : atts[j].quality_score <= atts[i].quality_score
        /\ \A j \in 1..(i - 1) : atts[j].quality_score < atts[i].quality_score

DynBegin(budgets) ==
    /\ pc = "planned" /\ mode = "dynamic"
    /\ \E b \in budgets : budget_dollars' = b
    /\ order' = _topological_sort(graph)
    /\ pos' = 1
    /\ outputs' = << >> /\ results' = << >>
    /\ total_spent' = planner_cost
    /\ upstream_spent' = 0
    /\ all_roi_decisions' = << >> /\ total_upgrades' = 0
    /\ pc' = "dyn_node"
    /\ UNCHANGED <<compareVars, traceVars, mode, planVars, plan, history, calls, surplus_pool, deliverable,
                   report, available, prompt, tier_idx, attempts, decisions,
                   subtask_cost, eval_cost>>

\* the head of "for sid in order", up to the while loop
DynNode ==
    /\ pc = "dyn_node" /\ pos <= Len(order)
    /\ LET sid == order[pos]
           total == remaining_total(budget_dollars, planner_cost)
       IN  /\ available' = Available(sid = final_id(order), budget_dollars,
                                     total_spent, upstream_budget(total),
                                     upstream_spent)
           /\ prompt' = _build_context(sid,
                            SortedSeq(subtask_map(graph, sid).dependencies), outputs)
    /\ tier_idx' = 0
    /\ attempts' = << >> /\ decisions' = << >>
    /\ subtask_cost' = 0
    /\ pc' = "dyn_loop"
    /\ UNCHANGED <<compareVars, traceVars, mode, planVars, allocVars, execVars, all_roi_decisions,
                   total_upgrades, eval_cost>>

\* the while loop is left without a call: no tier is left, or the tier's
\* estimate exceeds what is available
DynBreak ==
    /\ pc = "dyn_loop"
    /\ \/ tier_idx >= Len(TIER_LADDER)
       \/ DynEstimate(TIER_LADDER[tier_idx + 1]) > available
    /\ pc' = "dyn_pick"
    /\ UNCHANGED <<compareVars, traceVars, mode, planVars, allocVars, execVars, dynVars>>

\* one iteration of the while loop that calls the model: the call, the
\* judge's score, the attempt record, and the decision to upgrade or stop
DynAttempt(env) ==
    /\ pc = "dyn_loop"
    /\ tier_idx < Len(TIER_LADDER)
    /\ LET sid == order[pos]
           tier == TIER_LADDER[tier_idx + 1]
           max_tokens == TIER_MAX_TOKENS(tier)
       IN  /\ DynEstimate(tier) <= available
           /\ \E r \in Replies(sid, tier, max_tokens, env) :
              \E q \in quick_score(r.text, env) :
                LET score == q.score
                    cost == _actual_cost(r.prompt_tokens, r.completion_tokens, tier)
                    attempt == SubTaskAttempt(tier, r.text, score, cost,
                                              r.prompt_tokens, r.completion_tokens)
                    avail == available - cost
                    has_next == tier_idx + 1 < Len(TIER_LADDER)
                    next_tier == TIER_LADDER[tier_idx + 2]
                    upgrade_est == DynEstimate(next_tier)
                    lift == EXPECTED_LIFT(tier, next_tier)
                    dec_type == DecisionType(RoiAtLeastMin(lift, upgrade_est),
                                             upgrade_est, avail)
                    upgrade == dec_type = "upgrade"
                    decision == ROIDecision(sid, tier, score, next_tier, upgrade_est,
                                            lift, dec_type)
                IN  /\ calls' = Append(calls,
                            [Call(sid, tier, max_tokens, prompt) EXCEPT !.judge = q.judge])
                    /\ attempts' = Append(attempts, attempt)
                    /\ subtask_cost' = subtask_cost + cost
                    /\ available' = avail
                    /\ eval_cost' = IF q.judge = "failed" THEN eval_cost
                                    ELSE eval_cost + JudgeCost(env)
                    /\ IF score >= QUALITY_THRESHOLD \/ ~has_next
                       THEN /\ pc' = "dyn_pick"
                            /\ UNCHANGED <<compareVars, tier_idx, decisions, all_roi_decisions,
                                           total_upgrades>>
                       ELSE /\ decisions' = Append(decisions, decision)
                            /\ all_roi_decisions' = Append(all_roi_decisions, decision)
                            /\ IF upgrade
                               THEN /\ total_upgrades' = total_upgrades + 1
                                    /\ tier_idx' = tier_idx + 1
                                    /\ pc' = "dyn_loop"
                               ELSE /\ pc' = "dyn_pick"
                                    /\ UNCHANGED <<compareVars, tier_idx, total_upgrades>>
    /\ UNCHANGED <<compareVars, traceVars, mode, planVars, allocVars, order, pos, outputs, results,
                   surplus_pool, total_spent, upstream_spent, deliverable, report,
                   prompt>>

\* after the while loop: the best attempt, the ledgers, the node's result
DynPick ==
    /\ pc = "dyn_pick"
    /\ LET sid == order[pos]
           has_best == attempts # << >>
           best_idx == IF has_best THEN BestIndex(attempts) ELSE 1
           output == IF has_best THEN attempts[best_idx].output ELSE << >>
           final_tier == IF has_best THEN attempts[best_idx].tier ELSE "fast"
           total_prompt == SumSeq([i \in DOMAIN attempts |-> attempts[i].prompt_tokens])
           total_comp == SumSeq([i \in DOMAIN attempts |-> attempts[i].completion_tokens])
       IN  /\ outputs' = OutputsPut(outputs, sid, output)
           /\ total_spent' = total_spent + subtask_cost
           /\ upstream_spent' = IF sid = final_id(order) THEN upstream_spent
                                ELSE upstream_spent + subtask_cost
           /\ results' = Append(results,
                    SubTaskResult(sid, final_tier, TIER_MAX_TOKENS(final_tier),
                                  total_prompt, total_comp, subtask_cost, 0, output,
                                  FALSE, prompt, attempts, decisions, best_idx - 1))
    /\ pos' = pos + 1
    /\ pc' = "dyn_node"
    /\ UNCHANGED <<compareVars, traceVars, mode, planVars, allocVars, order, calls, surplus_pool, deliverable,
                   report, dynVars>>

\* DynamicExecutor._build_report
DynamicReport ==
    [budget_dollars |-> budget_dollars,
     spent_dollars |-> total_spent,
     remaining_dollars |-> budget_dollars - total_spent,
     utilization_pct |-> utilization(total_spent, budget_dollars),
     subtask_results |-> results,
     subtasks_skipped |-> 0,
     subtasks_downgraded |-> 0,
     downgrades_applied |-> SelectSeq(all_roi_decisions,
                                      LAMBDA d : d.decision = "upgrade"),
     total_subtasks |-> Len(graph),
     total_upgrades |-> total_upgrades, roi_decisions |-> all_roi_decisions,
     evaluation_cost_dollars |-> eval_cost]

DynReport ==
    /\ pc = "dyn_node" /\ pos > Len(order)
    /\ deliverable' = _pick_deliverable(order, outputs)
    /\ report' = DynamicReport
    /\ pc' = "done"
    /\ UNCHANGED <<compareVars, traceVars, mode, planVars, allocVars, order, pos, outputs, results, calls,
                   surplus_pool, total_spent, upstream_spent, dynVars>>

(***************************************************************************)
(* Both executors over every validated graph of up to MaxNodes subtasks,   *)
(* with replies of one size that may be empty.                             *)
(***************************************************************************)
ExecRemainings == {2000000, 30000}

InitExec ==
    /\ pc = "planned"
    /\ mode \in {"static", "dynamic"}
    /\ IsValidGraph(graph, {"low", "high"})
    /\ response = graph
    /\ planner_cost = PlannerCostUnits
    /\ budget_dollars = 0 /\ plan = NoPlan /\ history = << >>
    /\ ExecIdle /\ DynIdle /\ TraceIdle

NextExec ==
    \/ Allocate({PlannerCostUnits + r : r \in ExecRemainings})
    \/ ExecBegin
    \/ ExecSkipped
    \/ ExecNode(LeanEnv)
    \/ ExecReport
    \/ DynBegin({PlannerCostUnits + r : r \in ExecRemainings} \cup {0})
    \/ DynNode
    \/ DynBreak
    \/ DynAttempt(LeanEnv)
    \/ DynPick
    \/ DynReport

SpecExec == InitExec /\ [][NextExec]_vars

(***************************************************************************)
(* The dynamic executor over chains, with replies of two sizes and a judge *)
(* that may be dissatisfied.                                               *)
(***************************************************************************)
Chain(n) == [i \in 1..n |-> SubTask(i, "low", IF i = 1 THEN {} ELSE {i - 1})]

\* budget - planner cost, in units; multiples of 20 keep the reserve exact
DynRemainings == {0 - 2000, 20000, 30000, 55040, 100000}

InitDyn ==
    /\ pc = "planned"
    /\ mode = "dynamic"
    /\ graph \in {Chain(n) : n \in 1..MaxNodes}
    /\ response = graph
    /\ planner_cost = PlannerCostUnits
    /\ budget_dollars = 0 /\ plan = NoPlan /\ history = << >>
    /\ ExecIdle /\ DynIdle /\ TraceIdle

NextDyn ==
    \/ DynBegin({PlannerCostUnits + r : r \in DynRemainings})
    \/ DynNode
    \/ DynBreak
    \/ DynAttempt(RichEnv)
    \/ DynPick
    \/ DynReport

SpecDyn == InitDyn /\ [][NextDyn]_vars

(***************************************************************************)
(* agents/executor.py: the call of generate_content (lines 201-208) raises.*)
(* execute has no handler, so the exception leaves it after the boost and  *)
(* before anything is recorded for the node.                               *)
(***************************************************************************)
ExecCallFails ==
    /\ pc = "exec" /\ pos <= Len(order)
    /\ LET sid == order[pos]
           k == AllocIndex(sid)
           alloc == plan.allocations[k]
           tier_max == TIER_MAX_TOKENS(alloc.tier)
           boost == Boost(surplus_pool, alloc.max_tokens, tier_max)
           max_tokens == alloc.max_tokens + boost
           prm == _build_context(sid, SortedSeq(subtask_map(graph, sid).dependencies),
                                 outputs)
       IN  /\ ~alloc.skipped
           /\ plan' = [plan EXCEPT !.allocations[k].max_tokens = max_tokens]
           /\ surplus_pool' = surplus_pool - boost
           /\ calls' = Append(calls, Call(sid, alloc.tier, max_tokens, prm))
    /\ pc' = "aborted"
    /\ UNCHANGED <<compareVars, traceVars, mode, planVars, budget_dollars, history, order, pos, outputs,
                   results, total_spent, upstream_spent, deliverable, report, dynVars>>

(***************************************************************************)
(* The static pipeline over chains of every complexity, with replies of    *)
(* two sizes and calls that may fail.                                      *)
(***************************************************************************)
ChainOf(cx) == [i \in DOMAIN cx |-> SubTask(i, cx[i], IF i = 1 THEN {} ELSE {i - 1})]

StaticRemainings == {5000000, 100000, 20000, 9999, 500}

InitStatic ==
    /\ pc = "planned"
    /\ mode = "static"
    /\ \E n \in 1..MaxNodes : \E cx \in [1..n -> Complexities] : graph = ChainOf(cx)
    /\ response = graph
    /\ planner_cost = PlannerCostUnits
    /\ budget_dollars = 0 /\ plan = NoPlan /\ history = << >>
    /\ ExecIdle /\ DynIdle /\ TraceIdle

NextStatic ==
    \/ Allocate({PlannerCostUnits + r : r \in StaticRemainings})
    \/ ExecBegin
    \/ ExecSkipped
    \/ ExecNode(RichEnv)
    \/ ExecCallFails
    \/ ExecReport

SpecStatic == InitStatic /\ [][NextStatic]_vars

(***************************************************************************)
(* The trace store and the three entry points that write to it: the        *)
(* single-run command line (main._run_single), the batch driver            *)
(* (batch_runner.run_single under run_batch) and the dashboard's HTTP      *)
(* handler (app.run).  Each builds a RunTrace from the finished run, calls *)
(* save_trace, and then hands the result to its caller.                    *)
(***************************************************************************)
Entries == {"cli", "batch", "http"}

\* the rows save_trace inserts, in the order of its three inserts; the
\* subtask_traces insert is made only when the run has subtask traces
RowsOf(run_id, n) ==
    << [table |-> "runs", run_id |-> run_id, rows |-> 1],
       [table |-> "planner_traces", run_id |-> run_id, rows |-> 1] >>
    \o (IF n = 0 THEN << >>
        ELSE << [table |-> "subtask_traces", run_id |-> run_id, rows |-> n] >>)

\* the rows of the trace of the run that has just finished
TraceRows(run_id) == RowsOf(run_id, Len(results))

\* save_trace(trace): _get_client and each insert may raise; the inserts
\* made before the one that raised stay in the store.  The exception leaves
\* save_trace; app.run swallows it (its try covers the call), _run_single
\* and run_single let it through.
SaveTrace ==
    /\ pc = "done"
    /\ entry \in Entries
    /\ LET rows == TraceRows(Len(store) + 1)
       IN  \E k \in 0..Len(rows) :
             /\ store' = store \o SubSeq(rows, 1, k)
             /\ trace_write' = IF k = Len(rows) THEN "ok" ELSE "failed"
             /\ pc' = IF k = Len(rows) \/ entry = "http" THEN "traced"
                      ELSE "raised"
    /\ UNCHANGED <<compareVars, entry, delivered, run_id_unique, batchVars, mode, planVars, allocVars,
                   execVars, dynVars>>

\* after save_trace: _run_single prints the cost report and the deliverable,
\* run_single returns the trace to run_batch, app.run returns the JSON body
Deliver ==
    /\ pc = "traced"
    /\ delivered' = "result"
    /\ pc' = "returned"
    /\ UNCHANGED <<compareVars, entry, store, trace_write, run_id_unique, batchVars, mode, planVars,
                   allocVars,
                   execVars, dynVars>>

\* the exception of save_trace outside it: main has no handler, so the
\* process ends with the traceback; run_batch's loop catches it, logs
\* "Budget ... failed" and leaves the run out of the list it returns
Propagate ==
    /\ pc = "raised"
    /\ pc' = IF entry = "cli" THEN "crashed" ELSE "dropped"
    /\ UNCHANGED <<compareVars, traceVars, mode, planVars, allocVars, execVars, dynVars>>

TraceComplexities == {"low", "medium"}

TraceRemainings == {2000000, 30000, 20000}

InitTrace ==
    /\ pc = "planned"
    /\ entry \in Entries
    /\ mode = IF entry = "http" THEN "dynamic" ELSE "static"
    /\ \E n \in 1..MaxNodes : \E cx \in [1..n -> TraceComplexities] :
           graph = ChainOf(cx)
    /\ response = graph
    /\ planner_cost = PlannerCostUnits
    /\ budget_dollars = 0 /\ plan = NoPlan /\ history = << >>
    /\ ExecIdle /\ DynIdle
    /\ store = << >> /\ trace_write = "none" /\ delivered = "nothing"
    /\ run_id_unique \in BOOLEAN
    /\ batch_budgets = << >> /\ futures = << >> /\ traces = << >>
    /\ CompareIdle

NextTrace ==
    \/ Allocate({PlannerCostUnits + r : r \in TraceRemainings})
    \/ ExecBegin
    \/ ExecSkipped
    \/ ExecNode(LeanEnv)
    \/ ExecReport
    \/ DynBegin({PlannerCostUnits + r : r \in TraceRemainings})
    \/ DynNode
    \/ DynBreak
    \/ DynAttempt(LeanEnv)
    \/ DynPick
    \/ DynReport
    \/ SaveTrace
    \/ Deliver
    \/ Propagate

SpecTrace == InitTrace /\ [][NextTrace]_vars

(***************************************************************************)
(* The static pipeline on the five-node chain low, low, high, high,        *)
(* medium, at a remainder that covers the initial assignment, at one below *)
(* it and at two that force the cascade and the skipping pass.             *)
(***************************************************************************)
(* save_trace on its own: calls with traces of two run ids, repeated or    *)
(* not, against a store whose runs table may or may not reject a second    *)
(* row with the same run_id (the tables are defined outside the            *)
(* repository, so either is possible).                                     *)
(***************************************************************************)
RunIds == {1, 2}

\* a RunTrace, as far as save_trace reads it: its run_id and the number of
\* its subtask traces
StoreTraces == {[run_id |-> r, n |-> n] : r \in RunIds, n \in {0, 2}}

MaxStoreRows == 6

HasRun(st, run_id) ==
    \E i \in DOMAIN st : st[i].table = "runs" /\ st[i].run_id = run_id

\* the store after save_trace(trace) whose first k inserts succeed: plain
\* inserts, no upsert and no look-up; a runs row that the table rejects
\* raises at the first insert
save_trace(st, unique, trace, k) ==
    IF unique /\ HasRun(st, trace.run_id) THEN st
    ELSE st \o SubSeq(RowsOf(trace.run_id, trace.n), 1, k)

StoreSave ==
    /\ pc = "store"
    /\ \E trace \in StoreTraces :
         LET rows == RowsOf(trace.run_id, trace.n)
         IN  /\ Len(store) + Len(rows) <= MaxStoreRows
             /\ \E k \in 0..Len(rows) :
                   /\ store' = save_trace(store, run_id_unique, trace, k)
                   /\ trace_write' =
                        IF k = Len(rows) /\ ~(run_id_unique /\ HasRun(store, trace.run_id))
                        THEN "ok" ELSE "failed"
    /\ UNCHANGED <<compareVars, pc, entry, delivered, run_id_unique, batchVars, mode, planVars,
                   allocVars, execVars, dynVars>>

InitStore ==
    /\ pc = "store" /\ mode = "static"
    /\ response = NoGraph /\ graph = NoGraph /\ planner_cost = 0
    /\ budget_dollars = 0 /\ plan = NoPlan /\ history = << >>
    /\ ExecIdle /\ DynIdle
    /\ entry = "none" /\ store = << >> /\ trace_write = "none"
    /\ delivered = "nothing"
    /\ run_id_unique \in BOOLEAN
    /\ batch_budgets = << >> /\ futures = << >> /\ traces = << >>
    /\ CompareIdle

NextStore == StoreSave

SpecStore == InitStore /\ [][NextStore]_vars

(***************************************************************************)
(* batch_runner.py run_batch: the main thread submits one run per budget   *)
(* to a pool of worker threads, collects the futures as they complete and  *)
(* returns the traces sorted by budget.  A worker runs run_single: the     *)
(* allocator and the executor on state of its own, then save_trace on the  *)
(* store all workers share.                                                *)
(***************************************************************************)
MaxBudgets == 3

max_concurrency == 2

\* one with nothing left after the planner, two that leave a remainder
BatchBudgets == {PlannerCostUnits - 2000, PlannerCostUnits + 20000,
                 PlannerCostUnits + 100000}

Future(b) == [budget |-> b, state |-> "queued", inserted |-> 0, collected |-> FALSE]

\* the runs a worker thread is busy with
Busy == {i \in DOMAIN futures : futures[i].state \in {"running", "saving"}}

\* the traces in the order they were collected, unsorted
KeepCollectionOrder(ts) == ts

\* list.sort(key=budget_dollars) is stable: a trace goes behind the traces
\* of the same budget that were collected before it
RECURSIVE InsertByBudget(_, _)
InsertByBudget(sorted, t) ==
    IF sorted = << >> THEN <<t>>
    ELSE IF Head(sorted).budget_dollars <= t.budget_dollars
         THEN <<Head(sorted)>> \o InsertByBudget(Tail(sorted), t)
         ELSE <<t>> \o sorted

RECURSIVE SortFrom(_, _)
SortFrom(sorted, rest) ==
    IF rest = << >> THEN sorted
    ELSE SortFrom(InsertByBudget(sorted, Head(rest)), Tail(rest))

SortByBudget(ts) == SortFrom(<< >>, ts)

\* for i, b in enumerate(budgets): futures[pool.submit(_run_one, b)] = b
BatchSubmit ==
    /\ pc = "batch_submit"
    /\ Len(futures) < Len(batch_budgets)
    /\ futures' = Append(futures, Future(batch_budgets[Len(futures) + 1]))
    /\ UNCHANGED <<compareVars, pc, entry, store, trace_write, delivered, run_id_unique,
                   batch_budgets, traces, mode, planVars, allocVars, execVars, dynVars>>

\* the submit loop is over; as_completed starts
BatchSubmitted ==
    /\ pc = "batch_submit"
    /\ Len(futures) = Len(batch_budgets)
    /\ pc' = "batch_collect"
    /\ UNCHANGED <<compareVars, traceVars, mode, planVars, allocVars, execVars, dynVars>>

\* a free worker thread of the pool takes the oldest queued run
WorkerStart ==
    /\ Cardinality(Busy) < max_concurrency
    /\ \E i \in DOMAIN futures :
          /\ futures[i].state = "queued"
          /\ \A j \in 1..(i - 1) : futures[j].state # "queued"
          /\ futures' = [futures EXCEPT ![i].state = "running"]
    /\ UNCHANGED <<compareVars, pc, entry, store, trace_write, delivered, run_id_unique,
                   batch_budgets, traces, mode, planVars, allocVars, execVars, dynVars>>

\* run_single up to save_trace: allocate raises when nothing is left after
\* the planner; the executor's calls may raise; otherwise the trace is built
WorkerRun ==
    /\ \E i \in DOMAIN futures :
          /\ futures[i].state = "running"
          /\ \E outcome \in IF Remaining(futures[i].budget, planner_cost) <= 0
                             THEN {"raised"} ELSE {"saving", "raised"} :
                futures' = [futures EXCEPT ![i].state = outcome]
    /\ UNCHANGED <<compareVars, pc, entry, store, trace_write, delivered, run_id_unique,
                   batch_budgets, traces, mode, planVars, allocVars, execVars, dynVars>>

\* save_trace in a worker: its next insert, or the exception of that insert;
\* after the last insert run_single returns the trace
WorkerInsert ==
    /\ \E i \in DOMAIN futures :
          LET rows == RowsOf(i, Len(graph))
              k == futures[i].inserted + 1
          IN  /\ futures[i].state = "saving"
              /\ \/ /\ store' = Append(store, rows[k])
                    /\ futures' = [futures EXCEPT
                                     ![i].inserted = k,
                                     ![i].state = IF k = Len(rows) THEN "ok"
                                                  ELSE "saving"]
                 \/ /\ store' = store
                    /\ futures' = [futures EXCEPT ![i].state = "raised"]
    /\ UNCHANGED <<compareVars, pc, entry, trace_write, delivered, run_id_unique, batch_budgets,
                   traces, mode, planVars, allocVars, execVars, dynVars>>

\* for fut in as_completed(futures): try: traces.append(fut.result())
\* except Exception: logger.error(...)
BatchCollect ==
    /\ pc = "batch_collect"
    /\ \E i \in DOMAIN futures :
          /\ futures[i].state \in {"ok", "raised"}
          /\ ~futures[i].collected
          /\ futures' = [futures EXCEPT ![i].collected = TRUE]
          /\ traces' = IF futures[i].state = "ok"
                       THEN Append(traces, [run_id |-> i,
                                            budget_dollars |-> futures[i].budget])
                       ELSE traces
    /\ UNCHANGED <<compareVars, pc, entry, store, trace_write, delivered, run_id_unique,
                   batch_budgets, mode, planVars, allocVars, execVars, dynVars>>

\* traces.sort(key=lambda t: t.budget_dollars); return traces
BatchReturn ==
    /\ pc = "batch_collect"
    /\ \A i \in DOMAIN futures : futures[i].collected
    /\ traces' = SortByBudget(traces)
    /\ pc' = "batch_done"
    /\ UNCHANGED <<compareVars, entry, store, trace_write, delivered, run_id_unique, batch_budgets,
                   futures, mode, planVars, allocVars, execVars, dynVars>>

InitBatch ==
    /\ pc = "batch_submit" /\ mode = "static"
    /\ graph = Chain(1) /\ response = graph
    /\ planner_cost = PlannerCostUnits
    /\ budget_dollars = 0 /\ plan = NoPlan /\ history = << >>
    /\ ExecIdle /\ DynIdle
    /\ entry = "batch" /\ store = << >> /\ trace_write = "none"
    /\ delivered = "nothing" /\ run_id_unique = FALSE
    /\ \E n \in 1..MaxBudgets : batch_budgets \in [1..n -> BatchBudgets]
    /\ futures = << >> /\ traces = << >>
    /\ CompareIdle

NextBatch ==
    \/ BatchSubmit
    \/ BatchSubmitted
    \/ WorkerStart
    \/ WorkerRun
    \/ WorkerInsert
    \/ BatchCollect
    \/ BatchReturn

SpecBatch == InitBatch /\ [][NextBatch]_vars

(***************************************************************************)
ScenarioGraph == ChainOf(<<"low", "low", "high", "high", "medium">>)

\* budget - planner cost, in units: $0.17, $0.08, $0.015, $0.002, $0.00125
ScenarioRemainings == {3400000, 1600000, 300000, 40000, 25000}

InitScenario ==
    /\ pc = "planned"
    /\ mode = "static"
    /\ graph = ScenarioGraph
    /\ response = graph
    /\ planner_cost = PlannerCostUnits
    /\ budget_dollars = 0 /\ plan = NoPlan /\ history = << >>
    /\ ExecIdle /\ DynIdle /\ TraceIdle

NextScenario ==
    \/ Allocate({PlannerCostUnits + r : r \in ScenarioRemainings})
    \/ ExecBegin
    \/ ExecSkipped
    \/ ExecNode(LeanEnv)
    \/ ExecReport

SpecScenario == InitScenario /\ [][NextScenario]_vars

(***************************************************************************)
(* The dynamic executor on the five-node chain, with a judge that returns  *)
(* 4.0 or 9.0 for an attempt, at the budgets of the scenarios and at one   *)
(* that runs out upstream.                                                 *)
(***************************************************************************)
\* a judge that scores an attempt 4.0 or 9.0, replies of one size
ForcedEnv == [texts |-> {TRUE},
              usages |-> {[prompt_tokens |-> 200, halves |-> 1]},
              scores |-> {40, 90},
              judge_fails |-> {FALSE},
              judge |-> [prompt_tokens |-> 300, completion_tokens |-> 40]]

\* budget_dollars in units: $0.15, $0.10, $0.06, $0.0018
ScenarioBudgets == {3000000, 2000000, 1200000, 36000}

InitScenarioDyn ==
    /\ pc = "planned"
    /\ mode = "dynamic"
    /\ graph = ScenarioGraph
    /\ response = graph
    /\ planner_cost = PlannerCostUnits
    /\ budget_dollars = 0 /\ plan = NoPlan /\ history = << >>
    /\ ExecIdle /\ DynIdle /\ TraceIdle

NextScenarioDyn ==
    \/ DynBegin(ScenarioBudgets)
    \/ DynNode
    \/ DynBreak
    \/ DynAttempt(ForcedEnv)
    \/ DynPick
    \/ DynReport

SpecScenarioDyn == InitScenarioDyn /\ [][NextScenarioDyn]_vars

(***************************************************************************)
(* dashboard/compare.py: the comparison stream.  generate() plans and      *)
(* allocates, yields the plan event, starts the Pyrrhus thread and the     *)
(* baseline thread, and relays what they post to the shared queue until    *)
(* both have posted thread_done or a wait on the queue times out.  Each    *)
(* put on the queue is one step of its thread.                             *)
(***************************************************************************)
MaxChunks == 1

Sides == {"pyrrhus", "baseline"}

CompareBudgets ==
    {PlannerCostUnits - 2000, PlannerCostUnits + 20000, PlannerCostUnits + 100000}

Evt(type, side, sid) == [type |-> type, side |-> side, sid |-> sid]

\* _sse(event, data): what the client receives
Sse(event, side, sid) == [event |-> event, side |-> side, sid |-> sid]

ChunkType(side) == IF side = "pyrrhus" THEN "pyrrhus_chunk" ELSE "baseline_chunk"

\* while len(done_sides) < 2
LoopGoesOnAfterOne(sides) == sides = {}

LoopGoesOn(sides) == Cardinality(sides) < 2

\* the subtask the Pyrrhus thread is at, 0 past the end of the order
PyrrhusAt ==
    IF threads.pyrrhus.pc = "run" /\ threads.pyrrhus.idx <= Len(order)
    THEN order[threads.pyrrhus.idx] ELSE 0

PyrrhusAlloc == plan.allocations[AllocIndex(PyrrhusAt)]

\* planner.plan, allocator.allocate and the first yield
ComparePlan ==
    /\ pc = "cmp_start"
    /\ \E b \in CompareBudgets :
          /\ budget_dollars' = b
          /\ IF Remaining(b, planner_cost) <= 0
             THEN /\ plan' = NoPlan /\ pc' = "cmp_raised"
                  /\ stream' = stream
             ELSE /\ plan' = allocate(graph, b, planner_cost)
                  /\ stream' = Append(stream, Sse("plan", "stream", 0))
                  /\ pc' = "cmp_planned"
    /\ UNCHANGED <<mode, planVars, history, execVars, dynVars, traceVars, event_q,
                   done_sides, side_results, threads>>

\* pyrrhus_thread.start(); baseline_thread.start()
CompareStart ==
    /\ pc = "cmp_planned"
    /\ order' = _topological_sort(graph)
    /\ threads' = [pyrrhus |-> [pc |-> "run", idx |-> 1, chunks |-> 0, output |-> FALSE],
                   baseline |-> [pc |-> "run", idx |-> 1, chunks |-> 0, output |-> FALSE]]
    /\ done_sides' = {}
    /\ side_results' = [s \in Sides |-> FALSE]
    /\ pc' = "cmp_loop"
    /\ UNCHANGED <<mode, planVars, allocVars, pos, outputs, results, calls, surplus_pool,
                   total_spent, upstream_spent, deliverable, report, dynVars, traceVars,
                   event_q, stream>>

ThreadFrame ==
    UNCHANGED <<pc, mode, planVars, allocVars, execVars, dynVars, traceVars, stream,
                done_sides, side_results>>

\* _run_pyrrhus: a skipped allocation posts its pyrrhus_subtask_done at once
PyrrhusSkipped ==
    /\ PyrrhusAt # 0 /\ PyrrhusAlloc.skipped
    /\ event_q' = Append(event_q, Evt("pyrrhus_subtask_done", "pyrrhus", PyrrhusAt))
    /\ threads' = [threads EXCEPT !.pyrrhus.idx = @ + 1]
    /\ ThreadFrame

\* a chunk with text arrives from generate_content_stream
ThreadChunk(side) ==
    /\ threads[side].pc = "run"
    /\ threads[side].chunks < MaxChunks
    /\ IF side = "pyrrhus" THEN PyrrhusAt # 0 /\ ~PyrrhusAlloc.skipped
       ELSE threads[side].idx = 1
    /\ event_q' = Append(event_q, Evt(ChunkType(side), side,
                                      IF side = "pyrrhus" THEN PyrrhusAt ELSE 0))
    /\ threads' = [threads EXCEPT ![side].chunks = @ + 1, ![side].output = TRUE]
    /\ ThreadFrame

\* the stream of a subtask ends: pyrrhus_subtask_done
PyrrhusSubtaskDone ==
    /\ PyrrhusAt # 0 /\ ~PyrrhusAlloc.skipped
    /\ event_q' = Append(event_q, Evt("pyrrhus_subtask_done", "pyrrhus", PyrrhusAt))
    /\ threads' = [threads EXCEPT !.pyrrhus.idx = @ + 1, !.pyrrhus.chunks = 0]
    /\ ThreadFrame

\* _run_baseline: the one stream ends: baseline_done
BaselineDone ==
    /\ threads.baseline.pc = "run" /\ threads.baseline.idx = 1
    /\ event_q' = Append(event_q, Evt("baseline_done", "baseline", 0))
    /\ threads' = [threads EXCEPT !.baseline.idx = 2]
    /\ ThreadFrame

\* the last put of the try block: thread_done with the deliverable
ThreadFinish(side) ==
    /\ threads[side].pc = "run"
    /\ IF side = "pyrrhus" THEN threads[side].idx > Len(order)
       ELSE threads[side].idx = 2
    /\ event_q' = Append(event_q, [Evt("thread_done", side, 0) EXCEPT
                                      !.sid = IF threads[side].output THEN 1 ELSE 0])
    /\ threads' = [threads EXCEPT ![side].pc = "done"]
    /\ ThreadFrame

\* the model call raises: except Exception posts error ...
ThreadRaise(side) ==
    /\ threads[side].pc = "run"
    /\ IF side = "pyrrhus" THEN PyrrhusAt # 0 /\ ~PyrrhusAlloc.skipped
       ELSE threads[side].idx = 1
    /\ event_q' = Append(event_q, Evt("error", side, 0))
    /\ threads' = [threads EXCEPT ![side].pc = "failed"]
    /\ ThreadFrame

\* ... and then thread_done with an empty deliverable
ThreadFailedDone(side) ==
    /\ threads[side].pc = "failed"
    /\ event_q' = Append(event_q, Evt("thread_done", side, 0))
    /\ threads' = [threads EXCEPT ![side].pc = "done"]
    /\ ThreadFrame

GenerateFrame ==
    UNCHANGED <<mode, planVars, allocVars, execVars, dynVars, traceVars, threads>>

\* one round of the while loop: event_q.get returned an event
CompareGet ==
    /\ pc = "cmp_loop"
    /\ event_q # << >>
    /\ LET evt == Head(event_q)
       IN  /\ event_q' = Tail(event_q)
           /\ IF evt.type = "thread_done"
              THEN /\ done_sides' = done_sides \cup {evt.side}
                   /\ side_results' = [side_results EXCEPT ![evt.side] = evt.sid = 1]
                   /\ stream' = stream
              ELSE /\ stream' = Append(stream, Sse(evt.type, evt.side, evt.sid))
                   /\ UNCHANGED <<done_sides, side_results>>
           /\ pc' = IF LoopGoesOn(done_sides') THEN "cmp_loop" ELSE "cmp_quality"
    /\ GenerateFrame

\* event_q.get(timeout=120) raised queue.Empty: the error event, and return
CompareTimeout ==
    /\ pc = "cmp_loop"
    /\ event_q = << >>
    /\ stream' = Append(stream, Sse("error", "timeout", 0))
    /\ pc' = "cmp_closed"
    /\ UNCHANGED <<event_q, done_sides, side_results>>
    /\ GenerateFrame

\* _evaluate of the non-empty deliverables, and the quality event
CompareQuality ==
    /\ pc = "cmp_quality"
    /\ stream' = Append(stream, Sse("quality", "stream", 0))
    /\ pc' = "cmp_metrics"
    /\ UNCHANGED <<event_q, done_sides, side_results>>
    /\ GenerateFrame

CompareTextMetrics ==
    /\ pc = "cmp_metrics"
    /\ stream' = Append(stream, Sse("text_metrics", "stream", 0))
    /\ pc' = "cmp_done"
    /\ UNCHANGED <<event_q, done_sides, side_results>>
    /\ GenerateFrame

CompareDone ==
    /\ pc = "cmp_done"
    /\ stream' = Append(stream, Sse("done", "stream", 0))
    /\ pc' = "cmp_closed"
    /\ UNCHANGED <<event_q, done_sides, side_results>>
    /\ GenerateFrame

InitCompare ==
    /\ pc = "cmp_start" /\ mode = "static"
    /\ \E n \in 1..MaxRuns : \E cx \in [1..n -> {"low", "medium"}] : graph = ChainOf(cx)
    /\ response = graph
    /\ planner_cost = PlannerCostUnits
    /\ budget_dollars = 0 /\ plan = NoPlan /\ history = << >>
    /\ ExecIdle /\ DynIdle /\ TraceIdle

NextCompare ==
    \/ ComparePlan
    \/ CompareStart
    \/ PyrrhusSkipped
    \/ PyrrhusSubtaskDone
    \/ BaselineDone
    \/ \E side \in Sides : ThreadChunk(side)
    \/ \E side \in Sides : ThreadFinish(side)
    \/ \E side \in Sides : ThreadRaise(side)
    \/ \E side \in Sides : ThreadFailedDone(side)
    \/ CompareGet
    \/ CompareTimeout
    \/ CompareQuality
    \/ CompareTextMetrics
    \/ CompareDone

SpecCompare == InitCompare /\ [][NextCompare]_vars

(***************************************************************************)
(* Reference notions the claims are stated with.                           *)
(***************************************************************************)
DepsOf(g, x) == IF x \in Ids(g) THEN subtask_map(g, x).dependencies ELSE {}

RECURSIVE ReachedWithin(_, _, _)
\* the ids reached from the set S along one to k dependency edges
ReachedWithin(g, S, k) ==
    IF k = 0 THEN {}
    ELSE LET next == UNION {DepsOf(g, x) : x \in S}
         IN  next \cup ReachedWithin(g, next, k - 1)

HasCycle(g) == \E x \in Ids(g) : x \in ReachedWithin(g, {x}, Len(g))

HasSelfEdge(g) == \E i \in DOMAIN g : g[i].id \in g[i].dependencies

HasDangling(g) == \E i \in DOMAIN g : \E dep \in g[i].dependencies : dep \notin Ids(g)

IsSink(g, sid) == \A i \in DOMAIN g : sid \notin g[i].dependencies

AllocOf(p, sid) ==
    p.allocations[CHOOSE i \in DOMAIN p.allocations : p.allocations[i].subtask_id = sid]

\* the place of the downgrade event of the given kind on subtask sid, 0 if none
EventIndex(p, sid, kind) ==
    LET ev == p.downgrades_applied
    IN  IF \E i \in DOMAIN ev : ev[i].sid = sid /\ ev[i].event = kind
        THEN CHOOSE i \in DOMAIN ev : ev[i].sid = sid /\ ev[i].event = kind
        ELSE 0

\* subtask sid was at the tier the pass of this kind degrades when the pass ran
EligibleFor(g, p, sid, kind) ==
    CASE kind = "Deep -> Verify" ->
            COMPLEXITY_TO_TIER(subtask_map(g, sid).complexity) = "deep"
      [] kind = "Deep -> Fast" ->
            /\ COMPLEXITY_TO_TIER(subtask_map(g, sid).complexity) = "deep"
            /\ EventIndex(p, sid, "Deep -> Verify") = 0
      [] kind = "skipped" -> AllocOf(p, sid).tier = "verify"
      [] OTHER -> FALSE

CascadeKinds == {"Deep -> Verify", "Deep -> Fast", "skipped"}

(***************************************************************************)
(* C7.  _validate_dag raises exactly for the replies that hold a           *)
(* dependency cycle, a self-dependency or a dependency on an id no subtask *)
(* has, and only a reply it accepted is handed to the allocator.           *)
(***************************************************************************)
Thm_C7_ValidatorTotal ==
    /\ pc # "start" =>
        ((pc = "planner_invalid") <=>
            (HasCycle(response) \/ HasSelfEdge(response) \/ HasDangling(response)))
    /\ pc \in {"allocated", "budget_exhausted"} =>
        /\ graph = response
        /\ ~(HasCycle(graph) \/ HasSelfEdge(graph) \/ HasDangling(graph))

Wit_C7_CycleRejected ==
    /\ pc = "planner_invalid"
    /\ HasCycle(response) /\ ~HasSelfEdge(response) /\ ~HasDangling(response)
    /\ Len(response) = 3

(***************************************************************************)
(* C1.  A plan allocate returns costs at most the remaining budget, or     *)
(* every allocation it did not skip is at the floor of 128 tokens.         *)
(***************************************************************************)
Thm_C1_PlanWithinRemaining ==
    pc = "allocated" =>
        \/ plan.total_estimated_cost_dollars <= budget_dollars - planner_cost
        \/ \A i \in DOMAIN plan.allocations :
                ~plan.allocations[i].skipped => plan.allocations[i].max_tokens = 128

Wit_C1_Scaled ==
    /\ pc = "allocated"
    /\ plan.total_estimated_cost_dollars <= budget_dollars - planner_cost
    /\ \E i \in DOMAIN plan.allocations :
        /\ ~plan.allocations[i].skipped
        /\ plan.allocations[i].max_tokens > 128
        /\ plan.allocations[i].max_tokens < TIER_MAX_TOKENS(plan.allocations[i].tier)

(***************************************************************************)
(* C8.  Of two plans of one graph, the one for the smaller remaining       *)
(* budget costs no more and lists at least as many downgrade events.       *)
(***************************************************************************)
Thm_C8_CascadeMonotone ==
    (pc = "allocated" /\ Len(history) = 1) =>
        LET earlier == history[1]
        IN  /\ budget_dollars < earlier.budget_dollars =>
                /\ plan.total_estimated_cost_dollars
                        <= earlier.total_estimated_cost_dollars
                /\ Len(plan.downgrades_applied) >= Len(earlier.downgrades_applied)
            /\ earlier.budget_dollars < budget_dollars =>
                /\ earlier.total_estimated_cost_dollars
                        <= plan.total_estimated_cost_dollars
                /\ Len(earlier.downgrades_applied) >= Len(plan.downgrades_applied)

Wit_C8_SmallerBudgetCheaper ==
    /\ pc = "allocated" /\ Len(history) = 1
    /\ budget_dollars < history[1].budget_dollars
    /\ plan.total_estimated_cost_dollars < history[1].total_estimated_cost_dollars
    /\ Len(plan.downgrades_applied) > Len(history[1].downgrades_applied)
    /\ Len(history[1].downgrades_applied) > 0

(***************************************************************************)
(* C9.  Within a pass of the cascade, a subtask of smaller critical depth  *)
(* is degraded before one of larger critical depth, and no subtask is      *)
(* degraded while a less critical one at the same tier is left untouched.  *)
(***************************************************************************)
Thm_C9_LessCriticalFirst ==
    pc = "allocated" =>
        LET ev == plan.downgrades_applied
        IN  \A j \in DOMAIN ev : ev[j].event \in CascadeKinds =>
                \A l \in Ids(graph) :
                    (/\ CriticalDepth(graph, l) < CriticalDepth(graph, ev[j].sid)
                     /\ EligibleFor(graph, plan, l, ev[j].event))
                    => (/\ EventIndex(plan, l, ev[j].event) > 0
                        /\ EventIndex(plan, l, ev[j].event) < j)

Wit_C9_TwoDepthsDegraded ==
    /\ pc = "allocated"
    /\ \E i, j \in DOMAIN plan.downgrades_applied :
        LET ev == plan.downgrades_applied
        IN  /\ i < j /\ ev[i].event = ev[j].event /\ ev[j].event \in CascadeKinds
            /\ CriticalDepth(graph, ev[i].sid) < CriticalDepth(graph, ev[j].sid)
            /\ \E m \in Ids(graph) :
                /\ EligibleFor(graph, plan, m, ev[j].event)
                /\ EventIndex(plan, m, ev[j].event) = 0

(***************************************************************************)
(* C10.  A sink is degraded in a pass only after every subtask that is not *)
(* a sink and is eligible for the pass has been degraded.                  *)
(***************************************************************************)
Claim_C10_SinksDegradedLast ==
    pc = "allocated" =>
        LET ev == plan.downgrades_applied
        IN  \A j \in DOMAIN ev : (ev[j].event \in CascadeKinds /\ IsSink(graph, ev[j].sid)) =>
                \A l \in Ids(graph) :
                    (~IsSink(graph, l) /\ EligibleFor(graph, plan, l, ev[j].event))
                    => (/\ EventIndex(plan, l, ev[j].event) > 0
                        /\ EventIndex(plan, l, ev[j].event) < j)

(***************************************************************************)
(* C2.  For a validated graph the execution order of both executors is     *)
(* Kahn's order with the smallest ready id first: it holds every node      *)
(* once, places a node after all its dependencies, is the same for every   *)
(* listing order of the subtasks, and is the order of the SubTaskResults   *)
(* in the report.                                                          *)
(***************************************************************************)
RECURSIVE KahnSmallestFirst(_, _)
KahnSmallestFirst(g, placed) ==
    LET ready == {x \in Ids(g) \ Range(placed) : DepsOf(g, x) \subseteq Range(placed)}
    IN  IF ready = {} THEN placed
        ELSE KahnSmallestFirst(g, Append(placed, MinOf(ready)))

Place(ord, x) == CHOOSE i \in DOMAIN ord : ord[i] = x

Relisted(g, q) == [i \in DOMAIN g |-> g[q[i]]]

Running == pc \in {"exec", "dyn_node", "dyn_loop", "dyn_pick", "done"}

Thm_C2_KahnOrder ==
    Running =>
        /\ order = KahnSmallestFirst(graph, << >>)
        /\ Len(order) = Len(graph) /\ Range(order) = Ids(graph)
        /\ \A x \in Ids(graph) : \A d \in DepsOf(graph, x) :
                Place(order, d) < Place(order, x)
        /\ \A q \in Perms(Len(graph)) : _topological_sort(Relisted(graph, q)) = order
        /\ pc = "done" =>
                [i \in DOMAIN report.subtask_results |->
                    report.subtask_results[i].subtask_id] = order

\* a finished run over three subtasks listed in another order than they ran,
\* two of them ready at the start
Wit_C2_TieBrokenById ==
    /\ pc = "done" /\ Len(graph) = 3
    /\ [i \in DOMAIN graph |-> graph[i].id] # order
    /\ Cardinality({x \in Ids(graph) : DepsOf(graph, x) = {}}) >= 2
    /\ Len(report.subtask_results) = 3

(***************************************************************************)
(* C3.  In a run of either executor the model is called for a node only    *)
(* after the result of each of its dependencies has been recorded, and the *)
(* prompt of the call carries the output each dependency produced.         *)
(***************************************************************************)
Carries(prm, d, text) ==
    \E m \in DOMAIN prm.context : prm.context[m].dep = d /\ prm.context[m].text = text

Thm_C3_DependenciesFirst ==
    \A k \in DOMAIN calls :
        \A d \in DepsOf(graph, calls[k].sid) :
            \E j \in 1..calls[k].at :
                /\ results[j].subtask_id = d
                /\ results[j].output # << >> =>
                        Carries(calls[k].prompt, d, results[j].output)

\* a call for a node with two dependencies, both with an output
Wit_C3_TwoOutputsCarried ==
    \E k \in DOMAIN calls :
        /\ Cardinality(DepsOf(graph, calls[k].sid)) = 2
        /\ Len(calls[k].prompt.context) = 2

(***************************************************************************)
(* C4.  Dynamic executor: after a non-terminal node is processed, the sum  *)
(* of the costs of the nodes processed so far is at most                   *)
(* (budget - planner_cost) * 0.65, but for an excess no larger than the    *)
(* cost of the last attempt made.                                          *)
(***************************************************************************)
RECURSIVE AttemptsOf(_)
AttemptsOf(rs) ==
    IF rs = << >> THEN << >> ELSE rs[1].attempts \o AttemptsOf(Tail(rs))

LastAttemptCost(rs) ==
    LET atts == AttemptsOf(rs)
    IN  IF atts = << >> THEN 0 ELSE atts[Len(atts)].cost_dollars

CostSoFar == SumSeq([i \in DOMAIN results |-> results[i].cost_dollars])

UpstreamLimit == ((budget_dollars - planner_cost) * 65) \div 100

AfterNonTerminal ==
    pc = "dyn_node" /\ Len(results) >= 1 /\ Len(results) < Len(order)

Claim_C4_ReserveAnyBudget ==
    AfterNonTerminal => CostSoFar <= UpstreamLimit + LastAttemptCost(results)

\* the same when the budget covers the planner's cost
Thm_C4_UpstreamWithinLimit ==
    (AfterNonTerminal /\ budget_dollars >= planner_cost) =>
        CostSoFar <= UpstreamLimit + LastAttemptCost(results)

\* the upstream nodes have spent more than the limit, by part of one attempt
Wit_C4_LimitBreached ==
    AfterNonTerminal /\ budget_dollars >= planner_cost /\ CostSoFar > UpstreamLimit

(***************************************************************************)
(* C5.  Dynamic executor: when the terminal node is reached its available  *)
(* amount is at least the Fast worst-case estimate, and it gets at least   *)
(* one attempt.                                                            *)
(***************************************************************************)
AtTerminal == pc \in {"dyn_loop", "dyn_pick"} /\ order[pos] = final_id(order)

TerminalServed ==
    /\ (AtTerminal /\ pc = "dyn_loop" /\ attempts = << >>) =>
            available >= DynEstimate("fast")
    /\ (AtTerminal /\ pc = "dyn_pick") => attempts # << >>
    /\ (pc = "done" /\ mode = "dynamic") => results[Len(results)].attempts # << >>

Claim_C5_TerminalAlwaysServed == TerminalServed

\* what the last attempt of the upstream nodes cost beyond its estimate
LastUpstreamOvershoot ==
    LET atts == AttemptsOf(SubSeq(results, 1, Len(order) - 1))
    IN  IF atts = << >> THEN 0
        ELSE Max2(0, atts[Len(atts)].cost_dollars - DynEstimate(atts[Len(atts)].tier))

ReserveCoversFast ==
    ((budget_dollars - planner_cost) * SYNTHESIS_RESERVE_PERCENT) \div 100
        - LastUpstreamOvershoot >= DynEstimate("fast")

\* the same when the reserve, less what the last upstream attempt cost beyond
\* its estimate, is at least the Fast estimate
Thm_C5_TerminalServedFromReserve ==
    ((AtTerminal \/ pc = "done") /\ mode = "dynamic" /\ ReserveCoversFast)
        => TerminalServed

\* the terminal node of a chain was attempted after an upstream upgrade that
\* ran past the upstream budget
Wit_C5_ServedAfterUpgrades ==
    /\ pc = "done" /\ mode = "dynamic" /\ ReserveCoversFast
    /\ Len(order) >= 2
    /\ \E i \in 1..(Len(results) - 1) : Len(results[i].attempts) = 2
    /\ LastUpstreamOvershoot > 0
    /\ results[Len(results)].attempts # << >>

(***************************************************************************)
(* C6.  Dynamic executor: for a node with at least one attempt, the        *)
(* recorded output, final tier and final_attempt_index are those of the    *)
(* attempt with the highest quality_score, which need not be the last.     *)
(***************************************************************************)
Thm_C6_BestAttemptRecorded ==
    \A i \in DOMAIN results :
        (mode = "dynamic" /\ results[i].attempts # << >>) =>
            LET r == results[i]
                a == r.attempts[r.final_attempt_index + 1]
            IN  /\ \A j \in DOMAIN r.attempts : r.attempts[j].quality_score <= a.quality_score
                /\ r.output = a.output
                /\ r.tier = a.tier
                /\ outputs[r.subtask_id] = a.output

\* the first of two attempts scored higher than the second and was recorded
Wit_C6_FirstAttemptBest ==
    \E i \in DOMAIN results :
        /\ Len(results[i].attempts) = 2
        /\ results[i].attempts[1].quality_score > results[i].attempts[2].quality_score
        /\ results[i].final_attempt_index = 0
        /\ results[i].tier = "fast"

Thm_C12_ExhaustedAtEntry ==
    pc \in {"allocated", "budget_exhausted"} =>
        /\ (budget_dollars - planner_cost <= 0) <=> (pc = "budget_exhausted")
        /\ pc = "budget_exhausted" => plan = NoPlan

Wit_C12_SpentExceedsBudget ==
    /\ pc = "budget_exhausted"
    /\ budget_dollars < planner_cost
    /\ Len(graph) = 3
    /\ plan = NoPlan

(***************************************************************************)
(* C13.  allocate returns no plan whose allocations that are not skipped   *)
(* are all at the 128-token floor and whose cost still exceeds the         *)
(* remaining budget: it raises instead.                                    *)
(***************************************************************************)
Claim_C13_FloorStillOverAborts ==
    pc = "allocated" =>
        ~(/\ plan.total_estimated_cost_dollars > budget_dollars - planner_cost
          /\ \A i \in DOMAIN plan.allocations :
                ~plan.allocations[i].skipped =>
                    plan.allocations[i].max_tokens = TOKEN_FLOOR)

(***************************************************************************)
(* C14.  Static executor: when the model call of a node fails, the node is *)
(* recorded with an empty output and the run goes on to its CostReport; it *)
(* does not end at the failed call.                                        *)
(***************************************************************************)
Claim_C14_FailedCallContained ==
    (mode = "static" /\ pc = "aborted") =>
        /\ Len(results) >= pos
        /\ results[pos].subtask_id = order[pos]
        /\ results[pos].output = << >>

(***************************************************************************)
(* C15.  Dynamic executor: an attempt whose judge call failed is recorded  *)
(* with score 0, the upgrade check is made on that score (from Fast, the   *)
(* upgrade to Verify is taken unless its estimate exceeds what is          *)
(* available), and the run goes on.                                        *)
(***************************************************************************)
AllAttempts ==
    AttemptsOf(results) \o (IF pc \in {"dyn_loop", "dyn_pick"} THEN attempts ELSE << >>)

DecisionsOn(sid, tier) ==
    SelectSeq(all_roi_decisions,
              LAMBDA d : d.subtask_id = sid /\ d.current_tier = tier)

Claim_C16_WriteFailureContained ==
    trace_write = "failed" =>
        /\ pc \in {"traced", "returned"}
        /\ pc = "returned" => delivered = "result"

(***************************************************************************)
(* C17.  The deliverable returned by either executor is exactly the        *)
(* concatenation, in topological execution order and separated by blank    *)
(* lines, of the non-empty outputs of the non-skipped nodes: nothing is    *)
(* re-ordered, duplicated or dropped -- and, when no node produced a       *)
(* non-empty output, it is the fixed no-output notice instead.             *)
(***************************************************************************)
\* the non-empty outputs of the non-skipped nodes, in the order they ran
DeliveredParts ==
    LET kept == SelectSeq(results, LAMBDA r : ~r.skipped /\ r.output # << >>)
    IN  [i \in DOMAIN kept |-> kept[i].output]

\* parts[1], blank line, parts[2], ..., blank line, parts[n]
RECURSIVE Concatenation(_, _)
Concatenation(parts, n) ==
    IF n = 0 THEN << >>
    ELSE IF n = 1 THEN parts[1]
    ELSE Concatenation(parts, n - 1) \o <<SEP>> \o parts[n]

\* the results are in topological execution order
RanInOrder == \A i \in DOMAIN results : results[i].subtask_id = order[i]

\* the claim as stated: the concatenation and nothing else
Claim_C17_ConcatenationOnly ==
    pc = "done" =>
        /\ RanInOrder
        /\ deliverable = Concatenation(DeliveredParts, Len(DeliveredParts))

Thm_C17_ConcatenationOrNotice ==
    pc = "done" =>
        /\ RanInOrder
        /\ deliverable = IF DeliveredParts = << >> THEN NO_OUTPUT
                         ELSE Concatenation(DeliveredParts, Len(DeliveredParts))

\* a finished run with two outputs joined and an empty one left out
Wit_C17_TwoJoinedOneEmpty ==
    /\ pc = "done"
    /\ Len(DeliveredParts) = 2
    /\ \E i \in DOMAIN results : ~results[i].skipped /\ results[i].output = << >>

(***************************************************************************)
(* C18.  Judge (evaluator) cost is never drawn from the task budget: in    *)
(* the dynamic executor no judge call changes total_spent, upstream_spent  *)
(* or a node's available amount (which falls by the provider's bill for    *)
(* the attempt and nothing more), the report's spent_dollars is the        *)
(* planner's cost plus the provider's bills, and the judge's cost appears  *)
(* only in evaluation_cost_dollars.                                        *)
(***************************************************************************)
\* what the provider charges for one attempt, from its token counts
ProviderBill(a) ==
    a.prompt_tokens * TIER_PRICING_PER_1M_INPUT(a.tier)
        + a.completion_tokens * TIER_PRICING_PER_1M_OUTPUT(a.tier)

BillOfResult(r) == SumSeq([i \in DOMAIN r.attempts |-> ProviderBill(r.attempts[i])])

BillOfResults == SumSeq([i \in DOMAIN results |-> BillOfResult(results[i])])

SpentIsProviderBills ==
    mode = "dynamic" /\ pc \in {"dyn_node", "dyn_loop", "dyn_pick", "done"} =>
        /\ total_spent = planner_cost + BillOfResults
        /\ pc = "done" =>
              /\ report.spent_dollars = planner_cost + BillOfResults
              /\ report.evaluation_cost_dollars = eval_cost

JudgeCallLeavesBudget ==
    eval_cost' # eval_cost =>
        /\ total_spent' = total_spent
        /\ upstream_spent' = upstream_spent
        /\ Len(attempts') = Len(attempts) + 1
        /\ available' = available - ProviderBill(attempts'[Len(attempts')])

Thm_C18_JudgeCostOutsideBudget ==
    [](SpentIsProviderBills) /\ [][JudgeCallLeavesBudget]_vars

\* a finished run that stayed within its budget by less than what its
\* judge calls cost
Wit_C18_JudgeCostBeyondBudget ==
    /\ pc = "done" /\ mode = "dynamic"
    /\ eval_cost > 0
    /\ report.spent_dollars <= budget_dollars
    /\ report.spent_dollars + report.evaluation_cost_dollars > budget_dollars

(***************************************************************************)
(* C19.  The allocator's estimate is a worst-case overestimate of the      *)
(* static executor's bill, so the budget is a ceiling: whenever the plan's *)
(* total estimated cost is at most the remaining budget and every call     *)
(* returns at most its max_tokens completion tokens, the report's          *)
(* spent_dollars after static execution is at most budget_dollars.         *)
(***************************************************************************)
EstimateWithinRemaining ==
    plan.total_estimated_cost_dollars <= plan.budget_dollars - planner_cost

CompletionsWithinCap ==
    \A i \in DOMAIN results :
        results[i].completion_tokens <= results[i].tokens_budgeted

Claim_C19_BudgetIsCeiling ==
    (/\ pc = "done" /\ mode = "static"
     /\ EstimateWithinRemaining
     /\ CompletionsWithinCap)
        => report.spent_dollars <= report.budget_dollars

(***************************************************************************)
(* C20.  Scenario S2: for the five-node linear chain with complexities     *)
(* low, low, high, high, medium and a remaining budget of $0.17, the       *)
(* static allocator assigns Fast/Fast/Deep/Deep/Verify with an empty       *)
(* downgrade list, and the executor yields five results in id order.       *)
(***************************************************************************)
PlanTiers == [i \in DOMAIN plan.allocations |-> plan.allocations[i].tier]

ResultIds == [i \in DOMAIN results |-> results[i].subtask_id]

InitialAssignmentKept ==
    /\ pc \in {"allocated", "exec", "done"}
    /\ PlanTiers = <<"fast", "fast", "deep", "deep", "verify">>
    /\ \A i \in DOMAIN plan.allocations : ~plan.allocations[i].skipped
    /\ plan.downgrades_applied = << >>
    /\ pc = "done" => ResultIds = <<1, 2, 3, 4, 5>>

\* the scenario as stated, at a remainder of $0.08
Claim_C20_S2AtEightCents ==
    (pc # "planned" /\ budget_dollars = PlannerCostUnits + 1600000)
        => InitialAssignmentKept

Thm_C20_S2AtSeventeenCents ==
    (pc # "planned" /\ budget_dollars = PlannerCostUnits + 3400000)
        => InitialAssignmentKept

Wit_C20_FiveResultsNoDowngrade ==
    /\ pc = "done"
    /\ budget_dollars = PlannerCostUnits + 3400000
    /\ Len(results) = 5
    /\ plan.downgrades_applied = << >>

(***************************************************************************)
(* C21.  Scenario S3: for the five-node linear chain low, low, high, high, *)
(* medium with a remaining budget of $0.015, at least one Deep node is     *)
(* demoted to Verify and, in the cascade, node 3 is demoted before node 4  *)
(* (node 4, being closer to the sink, is treated as more critical).        *)
(***************************************************************************)
DemotedAt(sid) == EventIndex(plan, sid, "Deep -> Verify")

Claim_C21_S3NodeThreeFirst ==
    (pc # "planned" /\ budget_dollars = PlannerCostUnits + 300000) =>
        /\ \E sid \in {3, 4} : DemotedAt(sid) # 0
        /\ DemotedAt(4) # 0 => (DemotedAt(3) # 0 /\ DemotedAt(3) < DemotedAt(4))

(***************************************************************************)
(* C22.  Scenario S4: for the five-node linear chain low, low, high, high, *)
(* medium with a remaining budget of $0.00125, the allocator reaches the   *)
(* pass-4 proportional scaling step, every non-skipped node ends with      *)
(* max_tokens >= 128, and the total estimated cost is at most the          *)
(* remaining budget.                                                       *)
(***************************************************************************)
ReachedScaling ==
    \E i \in DOMAIN plan.downgrades_applied :
        plan.downgrades_applied[i].event = "scaled"

ScaledWithinRemaining(remaining) ==
    /\ ReachedScaling
    /\ \A i \in DOMAIN plan.allocations :
          ~plan.allocations[i].skipped => plan.allocations[i].max_tokens >= 128
    /\ SumSeq([i \in DOMAIN plan.allocations |->
                 plan.allocations[i].estimated_cost_dollars]) <= remaining
    /\ plan.total_estimated_cost_dollars <= remaining

\* the scenario as stated, at a remainder of $0.002
Claim_C22_S4AtTwoTenthsOfACent ==
    (pc # "planned" /\ budget_dollars = PlannerCostUnits + 40000)
        => ScaledWithinRemaining(40000)

Thm_C22_S4AtAnEighthOfACent ==
    (pc # "planned" /\ budget_dollars = PlannerCostUnits + 25000)
        => ScaledWithinRemaining(25000)

\* the plan of the scenario: the three Verify nodes skipped, the two Fast
\* nodes scaled below their cap
Wit_C22_SkippedThenScaled ==
    /\ pc = "allocated"
    /\ budget_dollars = PlannerCostUnits + 25000
    /\ ReachedScaling
    /\ \A i \in {3, 4, 5} : plan.allocations[i].skipped
    /\ \A i \in {1, 2} : /\ ~plan.allocations[i].skipped
                         /\ plan.allocations[i].max_tokens < TIER_MAX_TOKENS("fast")

(***************************************************************************)
(* C23.  Scenario S5 (dynamic executor): when the judge scores every Fast  *)
(* attempt below the threshold (4.0) and every Verify/Deep attempt above   *)
(* it (9.0), with budget $0.10 on the five-node chain, every node makes    *)
(* exactly two attempts (Fast then Verify), records exactly one            *)
(* ROIDecision with decision = upgrade, and no node is attempted at Deep.  *)
(***************************************************************************)
TiersTried(r) == [i \in DOMAIN r.attempts |-> r.attempts[i].tier]

\* the judge so far: 4.0 for every Fast attempt, 9.0 for every other
JudgeForcedS5 ==
    /\ \A i \in DOMAIN results : \A k \in DOMAIN results[i].attempts :
          results[i].attempts[k].quality_score
              = IF results[i].attempts[k].tier = "fast" THEN 40 ELSE 90
    /\ \A k \in DOMAIN attempts :
          attempts[k].quality_score = IF attempts[k].tier = "fast" THEN 40 ELSE 90

UpgradedOnce(r) ==
    /\ TiersTried(r) = <<"fast", "verify">>
    /\ Len(r.roi_decisions) = 1
    /\ r.roi_decisions[1].decision = "upgrade"
    /\ r.roi_decisions[1].subtask_id = r.subtask_id

Thm_C23_S5EveryNodeUpgradesOnce ==
    (pc # "planned" /\ budget_dollars = 2000000 /\ JudgeForcedS5) =>
        /\ \A i \in DOMAIN results : UpgradedOnce(results[i])
        /\ \A i \in DOMAIN calls : calls[i].tier # "deep"
        /\ pc = "done" =>
              /\ [i \in DOMAIN results |-> results[i].subtask_id] = <<1, 2, 3, 4, 5>>
              /\ Len(all_roi_decisions) = 5
              /\ total_upgrades = 5

Wit_C23_S5FiveUpgrades ==
    /\ pc = "done" /\ mode = "dynamic"
    /\ budget_dollars = 2000000
    /\ JudgeForcedS5
    /\ Len(results) = 5
    /\ \A i \in DOMAIN results : Len(results[i].attempts) = 2

(***************************************************************************)
(* C24.  Scenario S6 (dynamic executor, the five-node chain at a budget of *)
(* $0.06 or $0.15): when the judge scores every attempt below the          *)
(* threshold at all tiers, each node is tried at Fast and then at Verify,  *)
(* and is not tried at Deep even when the Deep estimate fits in the node's *)
(* available budget, because the ROI of Verify -> Deep is below MIN_ROI;   *)
(* and the terminal node is still attempted at least at Fast.              *)
(***************************************************************************)
\* the judge so far: 4.0 for every attempt
JudgeForcedS6 ==
    /\ \A i \in DOMAIN results : \A k \in DOMAIN results[i].attempts :
          results[i].attempts[k].quality_score = 40
    /\ \A k \in DOMAIN attempts : attempts[k].quality_score = 40

S6Budgets == {1200000, 3000000}

\* the node's loop has just ended
LoopEnded == pc = "dyn_pick"

DeepFits == DynEstimate("deep") <= available

TerminalAttempted ==
    pc = "done" =>
        /\ Len(results) = Len(graph)
        /\ results[Len(results)].subtask_id = final_id(order)
        /\ results[Len(results)].attempts # << >>
        /\ results[Len(results)].attempts[1].tier = "fast"

\* the scenario as stated: Deep is tried whenever its estimate fits
Claim_C24_S6DeepWhenItFits ==
    (mode = "dynamic" /\ budget_dollars \in S6Budgets /\ JudgeForcedS6) =>
        /\ LoopEnded =>
              /\ Len(attempts) >= 2
              /\ attempts[1].tier = "fast" /\ attempts[2].tier = "verify"
              /\ (Len(attempts) = 2 => ~DeepFits)
              /\ (Len(attempts) > 2 => attempts[3].tier = "deep")
        /\ TerminalAttempted

Thm_C24_S6NeverDeep ==
    (mode = "dynamic" /\ budget_dollars \in S6Budgets /\ JudgeForcedS6) =>
        /\ LoopEnded =>
              /\ [k \in DOMAIN attempts |-> attempts[k].tier] = <<"fast", "verify">>
              /\ Len(decisions) = 2
              /\ decisions[1].decision = "upgrade"
              /\ decisions[2].proposed_tier = "deep"
              /\ decisions[2].decision = IF DeepFits THEN "accept"
                                         ELSE "budget_exceeded"
        /\ \A i \in DOMAIN calls : calls[i].tier # "deep"
        /\ \A i \in DOMAIN results : TiersTried(results[i]) = <<"fast", "verify">>
        /\ TerminalAttempted

\* a node whose loop ended after Verify although the Deep estimate fits
Wit_C24_DeepFitsNotTried ==
    /\ mode = "dynamic" /\ budget_dollars \in S6Budgets /\ JudgeForcedS6
    /\ LoopEnded
    /\ Len(attempts) = 2
    /\ DeepFits
    /\ decisions[2].decision = "accept"

(***************************************************************************)
(* C25.  An ExecutionPlan's allocations are frozen once allocate returns:  *)
(* running the static executor on a plan leaves every SubTaskAllocation    *)
(* (tier, max_tokens, estimated cost, skipped) as allocate returned it.    *)
(***************************************************************************)
Claim_C25_PlanFrozen ==
    (mode = "static" /\ pc \in {"allocated", "exec", "aborted", "done"}) =>
        plan.allocations = allocate(graph, budget_dollars, planner_cost).allocations

(***************************************************************************)
(* C26.  Trace-store writes are append-only and idempotent per run_id:     *)
(* calling save_trace with a RunTrace whose rows are already stored leaves *)
(* the store as it was, and a write never modifies or removes the rows     *)
(* that were there, of this run or of another.                             *)
(***************************************************************************)
\* every row of the trace is in the store
Stored(trace) ==
    \A i \in DOMAIN RowsOf(trace.run_id, trace.n) :
        \E j \in DOMAIN store : store[j] = RowsOf(trace.run_id, trace.n)[i]

IdempotentPerRunId ==
    \A trace \in StoreTraces : \A k \in 0..3 :
        (/\ Stored(trace)
         /\ k <= Len(RowsOf(trace.run_id, trace.n))
         /\ store' = save_trace(store, run_id_unique, trace, k))
            => store' = store

AppendOnly ==
    /\ Len(store') >= Len(store)
    /\ SubSeq(store', 1, Len(store)) = store

Claim_C26_IdempotentAppendOnly == [][IdempotentPerRunId /\ AppendOnly]_vars

(***************************************************************************)
(* C27.  In run_batch the runs for different budgets are isolated: an      *)
(* exception in the run for one budget does not prevent the runs for the   *)
(* other budgets from completing, and the returned list contains exactly   *)
(* one trace for each run that succeeded, sorted by ascending budget,      *)
(* under every interleaving of the worker threads.                         *)
(***************************************************************************)
TracesOfRun(i) == {j \in DOMAIN traces : traces[j].run_id = i}

ReturnedExactlyTheSucceeded ==
    /\ \A i \in DOMAIN futures :
          /\ futures[i].state \in {"ok", "raised"}
          /\ Cardinality(TracesOfRun(i)) = IF futures[i].state = "ok" THEN 1 ELSE 0
    /\ \A j \in DOMAIN traces :
          /\ traces[j].run_id \in DOMAIN futures
          /\ traces[j].budget_dollars = batch_budgets[traces[j].run_id]
    /\ \A j, k \in DOMAIN traces :
          j < k => traces[j].budget_dollars <= traces[k].budget_dollars

\* whatever has been raised so far, some thread can take a step until
\* run_batch has returned
NeverBlocked == pc # "batch_done" => ENABLED NextBatch

Thm_C27_BatchRunsIsolated ==
    /\ Len(futures) <= Len(batch_budgets)
    /\ NeverBlocked
    /\ pc = "batch_done" =>
          /\ Len(futures) = Len(batch_budgets)
          /\ ReturnedExactlyTheSucceeded

\* a batch of three given in descending order of budget, whose first two
\* runs succeeded and whose third raised
Wit_C27_TwoTracesOneFailure ==
    /\ pc = "batch_done"
    /\ Len(batch_budgets) = 3
    /\ batch_budgets[1] > batch_budgets[2]
    /\ futures[1].state = "ok" /\ futures[2].state = "ok"
    /\ futures[3].state = "raised"
    /\ Len(traces) = 2
    /\ traces[1].run_id = 2 /\ traces[2].run_id = 1

(***************************************************************************)
(* C28: in the dynamic executor, after an attempt at a tier a further      *)
(* attempt at the next tier is made if and only if the attempt's score is  *)
(* below QUALITY_THRESHOLD, a next tier exists, lift / upgrade_est is at   *)
(* least MIN_ROI, and upgrade_est is at most what the node has available   *)
(* after the attempt's actual cost was debited.  A score of at least       *)
(* QUALITY_THRESHOLD ends the node's loop with no ROIDecision.             *)
(***************************************************************************)
AttemptMade == Len(calls') = Len(calls) + 1 /\ Len(attempts') = Len(attempts) + 1

JustAttempted == attempts'[Len(attempts')]

NextTierOf(tier) ==
    CASE tier = "fast" -> "verify"
      [] tier = "verify" -> "deep"
      [] OTHER -> "none"

UpgradeConditions ==
    LET a == JustAttempted
        next_tier == NextTierOf(a.tier)
        upgrade_est == TIER_MAX_TOKENS(next_tier) * TIER_PRICING_PER_1M_OUTPUT(next_tier)
        lift == EXPECTED_LIFT(a.tier, next_tier)
    IN  /\ a.quality_score < QUALITY_THRESHOLD
        /\ next_tier # "none"
        /\ lift * UnitsPerDollar >= MIN_ROI * 10 * upgrade_est
        /\ available' = available - a.cost_dollars
        /\ upgrade_est <= available'

\* the loop goes round once more, and the round's own guard lets the call
\* at the next tier through
FurtherAttempt ==
    /\ pc' = "dyn_loop"
    /\ tier_idx' = tier_idx + 1
    /\ TIER_LADDER[tier_idx' + 1] = NextTierOf(JustAttempted.tier)
    /\ DynEstimate(TIER_LADDER[tier_idx' + 1]) <= available'

LoopEndedSilently ==
    /\ pc' = "dyn_pick"
    /\ UNCHANGED <<tier_idx, decisions, all_roi_decisions, total_upgrades>>

Thm_C28_UpgradeExactlyWhenWorthIt ==
    [][AttemptMade =>
          /\ FurtherAttempt <=> UpgradeConditions
          /\ ~FurtherAttempt => pc' = "dyn_pick"
          /\ JustAttempted.quality_score >= QUALITY_THRESHOLD => LoopEndedSilently]_vars

Wit_C28_EveryWayOutOfAnAttempt ==
    /\ mode = "dynamic" /\ pc = "done"
    /\ \E i, j \in DOMAIN results :
          \* good enough at once: one attempt, nothing recorded
          /\ Len(results[i].attempts) = 1
          /\ results[i].attempts[1].quality_score >= QUALITY_THRESHOLD
          /\ results[i].roi_decisions = << >>
          \* upgraded from Fast, then Verify's upgrade affordable but not
          \* worth its cost
          /\ Len(results[j].attempts) = 2
          /\ results[j].attempts[2].quality_score < QUALITY_THRESHOLD
          /\ Len(results[j].roi_decisions) = 2
          /\ results[j].roi_decisions[2].decision = "accept"

(***************************************************************************)
(* C29: when an upgrade is considered but not taken, the ROIDecision       *)
(* recorded has decision = accept if the ROI is too low (roi < MIN_ROI)    *)
(* and decision = budget_exceeded otherwise; a too-low ROI is labelled     *)
(* accept even when the upgrade would also be unaffordable.                *)
(***************************************************************************)
RoiTooLow(d) ==
    d.expected_quality_lift * UnitsPerDollar < MIN_ROI * 10 * d.upgrade_cost_estimate

NotTaken == {k \in DOMAIN all_roi_decisions : all_roi_decisions[k].decision # "upgrade"}

Claim_C29_TooLowRoiIsAccept ==
    \A k \in NotTaken :
        all_roi_decisions[k].decision =
            IF RoiTooLow(all_roi_decisions[k]) THEN "accept" ELSE "budget_exceeded"

\* As the code has it: the money is asked about first.  The decision is
\* budget_exceeded whenever the upgrade's estimate exceeds what the node has
\* available, whatever the ROI, and accept only when the upgrade is
\* affordable and its ROI too low.
DecisionRecorded ==
    /\ AttemptMade
    /\ Len(all_roi_decisions') = Len(all_roi_decisions) + 1
    /\ all_roi_decisions'[Len(all_roi_decisions')].decision # "upgrade"

JustDecided == all_roi_decisions'[Len(all_roi_decisions')]

Thm_C29_UnaffordableIsBudgetExceeded ==
    [][DecisionRecorded =>
          /\ decisions' = Append(decisions, JustDecided)
          /\ pc' = "dyn_pick"
          /\ JustDecided.upgrade_cost_estimate > available'
                => JustDecided.decision = "budget_exceeded"
          /\ JustDecided.upgrade_cost_estimate <= available'
                => JustDecided.decision = "accept" /\ RoiTooLow(JustDecided)]_vars

Wit_C29_TooLowAndUnaffordable ==
    /\ mode = "dynamic" /\ pc = "dyn_pick"
    /\ decisions # << >>
    /\ LET d == decisions[Len(decisions)]
       IN  /\ RoiTooLow(d)
           /\ d.upgrade_cost_estimate > available
           /\ d.decision = "budget_exceeded"

(***************************************************************************)
(* C30: the dynamic executor never invokes a model at a tier whose         *)
(* worst-case estimate (default cap times output price) exceeds what the   *)
(* node has available.  When that is so before any attempt, as it is for   *)
(* every node when the budget is at most the planner's cost, the node      *)
(* makes no model call, costs 0 and is recorded with empty output, and the *)
(* run still returns a report rather than raising.                         *)
(***************************************************************************)
WorstCase(tier) == TIER_MAX_TOKENS(tier) * TIER_PRICING_PER_1M_OUTPUT(tier)

CallsOfNode(k) == {c \in DOMAIN calls : calls[c].at = k - 1}

\* a call is made only at a tier the node can afford in the worst case
CallOnlyWhenAffordable ==
    AttemptMade => WorstCase(calls'[Len(calls')].tier) <= available

\* a node that cannot afford its first tier leaves the loop untouched
UnaffordableAtOnce ==
    pc = "dyn_loop" /\ attempts = << >> /\ WorstCase(TIER_LADDER[1]) > available

NoCallForTheNode ==
    UnaffordableAtOnce =>
        /\ pc' = "dyn_pick"
        /\ calls' = calls
        /\ attempts' = << >>
        /\ subtask_cost' = 0

\* and is recorded as a result without attempts, cost or output
RecordedEmpty ==
    (pc = "dyn_pick" /\ attempts = << >>) =>
        /\ Len(results') = Len(results) + 1
        /\ LET r == results'[Len(results')]
           IN  /\ r.subtask_id = order[pos]
               /\ r.attempts = << >>
               /\ r.cost_dollars = 0
               /\ r.total_tokens = 0
               /\ r.output = << >>
        /\ outputs'[order[pos]] = << >>
        /\ total_spent' = total_spent
        /\ pc' = "dyn_node"

\* no state of a run is an exception or a dead end: the run goes on until
\* its report is returned, with every node in it
ReportStillReturned ==
    /\ pc # "aborted"
    /\ pc # "done" => ENABLED NextDyn
    /\ pc = "done" =>
          /\ Len(report.subtask_results) = Len(graph)
          /\ \A k \in DOMAIN results :
                results[k].attempts = << >> <=> CallsOfNode(k) = {}

Thm_C30_NoCallBeyondAvailable ==
    /\ []ReportStillReturned
    /\ [][CallOnlyWhenAffordable /\ NoCallForTheNode /\ RecordedEmpty]_vars

Wit_C30_BudgetBelowPlannerCost ==
    /\ mode = "dynamic" /\ pc = "done"
    /\ budget_dollars <= planner_cost
    /\ Len(graph) > 1
    /\ calls = << >>
    /\ Len(report.subtask_results) = Len(graph)
    /\ \A k \in DOMAIN report.subtask_results :
          /\ report.subtask_results[k].cost_dollars = 0
          /\ report.subtask_results[k].output = << >>

(***************************************************************************)
(* C31: in the static executor the opportunistic boost raises a node's     *)
(* max_tokens by exactly min(surplus_pool, tier_default - max_tokens) and  *)
(* debits the pool by the same amount; after any sequence of nodes no      *)
(* node's cap exceeds its tier's default cap and the pool is not negative. *)
(***************************************************************************)
NodeCalled ==
    mode = "static" /\ Len(calls') = Len(calls) + 1 /\ Len(results') = Len(results) + 1

PlannedCap(sid) == plan.allocations[AllocIndex(sid)].max_tokens

ExpectedBoost(sid) ==
    LET gap == TIER_MAX_TOKENS(plan.allocations[AllocIndex(sid)].tier) - PlannedCap(sid)
    IN  IF surplus_pool > 0 /\ gap > 0
        THEN (IF surplus_pool <= gap THEN surplus_pool ELSE gap)
        ELSE 0

BoostIsTheSmallerOfPoolAndGap ==
    NodeCalled =>
        LET c == calls'[Len(calls')]
            r == results'[Len(results')]
        IN  /\ c.max_tokens = PlannedCap(c.sid) + ExpectedBoost(c.sid)
            /\ r.tokens_budgeted = c.max_tokens
            /\ surplus_pool' = (surplus_pool - ExpectedBoost(c.sid)) + r.surplus

CapsWithinTierDefault ==
    /\ surplus_pool >= 0
    /\ \A k \in DOMAIN calls : calls[k].max_tokens <= TIER_MAX_TOKENS(calls[k].tier)
    /\ mode = "static" /\ pc \in {"exec", "done"} =>
          \A k \in DOMAIN plan.allocations :
              plan.allocations[k].max_tokens
                  <= TIER_MAX_TOKENS(plan.allocations[k].tier)

Thm_C31_BoostBounded ==
    /\ []CapsWithinTierDefault
    /\ [][BoostIsTheSmallerOfPoolAndGap]_vars

\* a run with one boost that took the whole pool and one that filled the gap
Wit_C31_BoostedBothWays ==
    /\ mode = "static" /\ pc = "done"
    /\ \E h, i, j \in DOMAIN results :
          /\ h < i /\ i < j
          /\ ~results[h].skipped /\ ~results[i].skipped /\ ~results[j].skipped
          /\ results[h].tier = results[i].tier /\ results[i].tier = results[j].tier
          \* i was boosted by all there was and stayed below the default
          /\ results[h].tokens_budgeted < results[i].tokens_budgeted
          /\ results[i].tokens_budgeted < TIER_MAX_TOKENS(results[i].tier)
          \* j was boosted up to the default and left tokens in the pool
          /\ results[j].tokens_budgeted = TIER_MAX_TOKENS(results[j].tier)
          /\ surplus_pool > results[j].surplus

(***************************************************************************)
(* C32: in the allocator's criticality ordering, nodes with equal critical *)
(* depth are ordered by ascending subtask id, for every graph and every    *)
(* listing order of its subtasks.                                          *)
(***************************************************************************)
PosIn(seq, x) == CHOOSE i \in DOMAIN seq : seq[i] = x

TiedPairs ==
    LET ord == _criticality_order(graph)
    IN  {pr \in (DOMAIN ord) \X (DOMAIN ord) :
            /\ pr[1] < pr[2]
            /\ CriticalDepth(graph, ord[pr[1]]) = CriticalDepth(graph, ord[pr[2]])}

Claim_C32_TiesByAscendingId ==
    LET ord == _criticality_order(graph)
    IN  pc = "allocated" => \A pr \in TiedPairs : ord[pr[1]] < ord[pr[2]]

\* As the code has it: sorted() is stable over the depth cache, so nodes of
\* equal depth keep the order in which their depths entered the cache, which
\* is the listing order of the subtasks except that a node's dependents
\* enter before the node.
CacheIds == [i \in DOMAIN DepthCache(graph) |-> DepthCache(graph)[i].sid]

DependentsEnterFirst ==
    \A i \in DOMAIN graph : \A dep \in graph[i].dependencies :
        PosIn(CacheIds, graph[i].id) < PosIn(CacheIds, dep)

Thm_C32_TiesByCacheOrder ==
    LET ord == _criticality_order(graph)
    IN  /\ Len(ord) = Len(graph)
        /\ \A i, j \in DOMAIN ord :
              i < j => CriticalDepth(graph, ord[i]) <= CriticalDepth(graph, ord[j])
        /\ \A pr \in TiedPairs :
              PosIn(CacheIds, ord[pr[1]]) < PosIn(CacheIds, ord[pr[2]])
        /\ DependentsEnterFirst

\* subtasks listed by ascending id, allocated, and still a tie that is not in
\* ascending id order
Wit_C32_TieAgainstIdOrder ==
    /\ pc = "allocated"
    /\ \A i \in DOMAIN graph : graph[i].id = i
    /\ \E pr \in TiedPairs :
          _criticality_order(graph)[pr[1]] > _criticality_order(graph)[pr[2]]

(***************************************************************************)
(* C33: for a node whose allocation is skipped the static executor makes   *)
(* no model call, adds nothing to total_spent, leaves the surplus pool     *)
(* unchanged and records a SubTaskResult with skipped = true, empty output *)
(* and zero tokens and cost; the nodes that depend on it are still         *)
(* executed, without its output in their prompt.                           *)
(***************************************************************************)
AtSkippedNode ==
    /\ mode = "static" /\ pc = "exec" /\ pos <= Len(order)
    /\ plan.allocations[AllocIndex(order[pos])].skipped

SkippedNodeRecordedOnly ==
    AtSkippedNode =>
        /\ calls' = calls
        /\ total_spent' = total_spent
        /\ surplus_pool' = surplus_pool
        /\ outputs' = outputs
        /\ plan' = plan
        /\ Len(results') = Len(results) + 1
        /\ LET r == results'[Len(results')]
           IN  /\ r.subtask_id = order[pos]
               /\ r.skipped
               /\ r.output = << >>
               /\ r.tokens_budgeted = 0
               /\ r.prompt_tokens = 0 /\ r.completion_tokens = 0 /\ r.total_tokens = 0
               /\ r.cost_dollars = 0 /\ r.surplus = 0
        /\ pc' = "exec" /\ pos' = pos + 1

SkippedIds ==
    {plan.allocations[k].subtask_id : k \in {j \in DOMAIN plan.allocations :
                                                plan.allocations[j].skipped}}

DependentsStillRun ==
    (mode = "static" /\ pc = "done") =>
        /\ \A c \in DOMAIN calls :
              /\ calls[c].sid \notin SkippedIds
              /\ \A x \in DOMAIN calls[c].prompt.context :
                    calls[c].prompt.context[x].dep \notin SkippedIds
        /\ \A i \in DOMAIN graph :
              graph[i].id \notin SkippedIds =>
                  \E c \in DOMAIN calls : calls[c].sid = graph[i].id
        /\ \A sid \in SkippedIds : sid \notin DOMAIN outputs

Thm_C33_SkippedNodeIsInert ==
    /\ []DependentsStillRun
    /\ [][SkippedNodeRecordedOnly]_vars

\* a finished run in which a node that was called depends on a skipped one
Wit_C33_DependentOfSkippedRan ==
    /\ mode = "static" /\ pc = "done"
    /\ \E i \in DOMAIN graph : \E dep \in graph[i].dependencies :
          /\ dep \in SkippedIds
          /\ \E c \in DOMAIN calls :
                calls[c].sid = graph[i].id /\ calls[c].prompt.context = << >>
          /\ \E k \in DOMAIN results : results[k].subtask_id = dep /\ results[k].skipped

(***************************************************************************)
(* C34: if the initial estimate (every node at the default tier of its     *)
(* complexity, Low -> Fast, Medium -> Verify, High -> Deep, with the       *)
(* tier's default cap, cost = cap times output price) is at most the       *)
(* remaining budget, the allocator returns exactly that mapping: no node   *)
(* is demoted, skipped or scaled and the downgrade list is empty.          *)
(***************************************************************************)
DefaultTier(complexity) ==
    IF complexity = "low" THEN "fast"
    ELSE IF complexity = "medium" THEN "verify"
    ELSE "deep"

DefaultCost(complexity) ==
    TIER_MAX_TOKENS(DefaultTier(complexity))
        * TIER_PRICING_PER_1M_OUTPUT(DefaultTier(complexity))

InitialEstimate == SumSeq([i \in DOMAIN graph |-> DefaultCost(graph[i].complexity)])

InitialEstimateFits ==
    /\ pc = "allocated"
    /\ InitialEstimate <= budget_dollars - planner_cost

PlanIsInitialMapping ==
    /\ Len(plan.allocations) = Len(graph)
    /\ \A i \in DOMAIN graph :
          LET a == plan.allocations[i]
              tier == DefaultTier(graph[i].complexity)
          IN  /\ a.subtask_id = graph[i].id
              /\ a.tier = tier
              /\ a.model = TIER_MODELS(tier)
              /\ a.max_tokens = TIER_MAX_TOKENS(tier)
              /\ a.estimated_cost_dollars = DefaultCost(graph[i].complexity)
              /\ ~a.skipped
    /\ plan.downgrades_applied = << >>
    /\ plan.total_estimated_cost_dollars = InitialEstimate

Thm_C34_FittingEstimateKept == InitialEstimateFits => PlanIsInitialMapping

\* one High-complexity sink, kept at Deep
Wit_C34_OneHighSinkKeptDeep ==
    /\ InitialEstimateFits
    /\ Len(graph) = 1 /\ graph[1].complexity = "high"
    /\ plan.allocations[1].tier = "deep"
    /\ plan.downgrades_applied = << >>

(***************************************************************************)
(* C35: in the report of either executor spent_dollars is the planner's    *)
(* cost plus the sum of cost_dollars over all SubTaskResults (each node's  *)
(* cost being the sum over its attempts), remaining_dollars is budget      *)
(* minus spent_dollars, and utilisation is spent / budget times 100, or 0  *)
(* when budget = 0.                                                        *)
(***************************************************************************)
ResultCosts(rs) == SumSeq([i \in DOMAIN rs |-> rs[i].cost_dollars])

AttemptCosts(r) == SumSeq([i \in DOMAIN r.attempts |-> r.attempts[i].cost_dollars])

ReportLedger ==
    /\ report.budget_dollars = budget_dollars
    /\ report.spent_dollars = planner_cost + ResultCosts(report.subtask_results)
    /\ report.remaining_dollars = report.budget_dollars - report.spent_dollars
    /\ IF report.budget_dollars = 0
       THEN report.utilization_pct.num = 0
       ELSE /\ report.utilization_pct.den = report.budget_dollars
            /\ report.utilization_pct.num = report.spent_dollars * 100
    /\ mode = "dynamic" =>
          \A i \in DOMAIN report.subtask_results :
              report.subtask_results[i].cost_dollars
                  = AttemptCosts(report.subtask_results[i])

Thm_C35_ReportLedger == pc = "done" => ReportLedger

Wit_C35_ReportAfterCharges ==
    /\ pc = "done" /\ mode = "dynamic"
    /\ report.budget_dollars > 0
    /\ report.spent_dollars > planner_cost
    /\ Len(report.subtask_results) > 1

(***************************************************************************)
(* C36: cascade pass 2 never changes any allocation.  For every graph and  *)
(* budget no node is demoted from Deep to Fast, because whenever pass 1    *)
(* ends still over budget every Deep node has already become Verify; so    *)
(* the downgrade list of every returned plan holds only Deep -> Verify,    *)
(* skip and scaling events.                                                *)
(***************************************************************************)
AfterPass1 ==
    PassLoop(1, _criticality_order(graph),
             [allocs |-> InitialAllocs(graph), downgrades |-> << >>],
             budget_dollars - planner_cost)

AfterPass2 ==
    PassLoop(2, _criticality_order(graph), AfterPass1, budget_dollars - planner_cost)

DowngradeEvents ==
    {plan.downgrades_applied[i].event : i \in DOMAIN plan.downgrades_applied}

Thm_C36_PassTwoIsDead ==
    pc = "allocated" =>
        /\ DowngradeEvents \subseteq {"Deep -> Verify", "skipped", "scaled"}
        /\ \A i \in DOMAIN graph :
              graph[i].complexity = "high" => plan.allocations[i].tier # "fast"
        /\ AfterPass2 = AfterPass1
        /\ _total_cost(AfterPass1.allocs) > budget_dollars - planner_cost =>
              \A sid \in DOMAIN AfterPass1.allocs : AfterPass1.allocs[sid].tier # "deep"

\* pass 1 demoted two Deep nodes and the plan was still over budget
Wit_C36_OverBudgetAfterPassOne ==
    /\ pc = "allocated"
    /\ _total_cost(AfterPass1.allocs) > budget_dollars - planner_cost
    /\ Len(SelectSeq(plan.downgrades_applied,
                     LAMBDA d : d.event = "Deep -> Verify")) >= 2
    /\ "skipped" \in DowngradeEvents

(***************************************************************************)
(* C37: for every node in the dynamic executor the sequence of attempts is *)
(* a prefix of TIER_LADDER (first attempt at Fast, i-th attempt at the     *)
(* i-th tier, none skipped or repeated, at most 3 attempts); when the node *)
(* has at least one attempt the number of attempts is the number of its    *)
(* ROIDecisions with decision = upgrade plus one; and an upgrade decision  *)
(* is always followed by an attempt at the proposed tier.                  *)
(***************************************************************************)
Ladder == <<"fast", "verify", "deep">>

UpgradesIn(decs) == SelectSeq(decs, LAMBDA d : d.decision = "upgrade")

AttemptsArePrefixOfLadder(atts) ==
    /\ Len(atts) <= Len(Ladder)
    /\ \A i \in DOMAIN atts : atts[i].tier = Ladder[i]

\* the i-th upgrade decision was taken after the i-th attempt and proposes
\* the tier of the attempt that follows it
UpgradesFollowed(atts, decs) ==
    /\ atts # << >> => Len(atts) = Len(UpgradesIn(decs)) + 1
    /\ atts = << >> => decs = << >>
    /\ \A i \in DOMAIN decs :
          /\ decs[i].current_tier = Ladder[i]
          /\ decs[i].decision = "upgrade" =>
                /\ i + 1 \in DOMAIN atts
                /\ atts[i + 1].tier = decs[i].proposed_tier
          /\ decs[i].decision # "upgrade" => i = Len(decs) /\ i = Len(atts)

\* while the node's loop runs, an upgrade just decided is an attempt that is
\* about to be made
UpgradePending ==
    (pc = "dyn_loop" /\ decisions # << >>) =>
        /\ decisions[Len(decisions)].decision = "upgrade"
        /\ Len(attempts) = Len(decisions)
        /\ tier_idx = Len(attempts)
        /\ Ladder[tier_idx + 1] = decisions[Len(decisions)].proposed_tier
        /\ ENABLED DynAttempt(ForcedEnv)
        /\ ~ENABLED DynBreak

Thm_C37_AttemptsClimbTheLadder ==
    mode = "dynamic" =>
        /\ \A k \in DOMAIN results :
              /\ AttemptsArePrefixOfLadder(results[k].attempts)
              /\ UpgradesFollowed(results[k].attempts, results[k].roi_decisions)
        /\ pc \in {"dyn_loop", "dyn_pick"} => AttemptsArePrefixOfLadder(attempts)
        /\ pc = "dyn_pick" => UpgradesFollowed(attempts, decisions)
        /\ UpgradePending

Wit_C37_TwoAttemptsOneUpgrade ==
    /\ mode = "dynamic" /\ pc = "done"
    /\ \E k \in DOMAIN results :
          /\ Len(results[k].attempts) = 2
          /\ Len(UpgradesIn(results[k].roi_decisions)) = 1
    /\ \E k \in DOMAIN results :
          /\ Len(results[k].attempts) = 1
          /\ results[k].roi_decisions = << >>

(***************************************************************************)
(* C38: token conservation in the static executor.  After any prefix of    *)
(* the topological order, and as long as each call returned at most its    *)
(* cap in completion tokens, surplus_pool plus the completion tokens       *)
(* consumed so far equals the sum of the max_tokens the allocator planned  *)
(* for the non-skipped nodes processed so far: redistribution creates no   *)
(* tokens beyond what the plan budgeted.                                   *)
(***************************************************************************)
\* the plan as the allocator returned it, before any boost was written to it
PlannedAllocations == allocate(graph, budget_dollars, planner_cost).allocations

PlannedTokens(sid) ==
    LET k == CHOOSE i \in DOMAIN PlannedAllocations :
                 PlannedAllocations[i].subtask_id = sid
    IN  PlannedAllocations[k].max_tokens

Consumed == SumSeq([i \in DOMAIN results |-> results[i].completion_tokens])

PlannedForProcessed ==
    SumSeq([i \in DOMAIN results |->
               IF results[i].skipped THEN 0 ELSE PlannedTokens(results[i].subtask_id)])

EachCallWithinItsCap ==
    \A i \in DOMAIN results : results[i].completion_tokens <= results[i].tokens_budgeted

Thm_C38_TokensConserved ==
    (mode = "static" /\ pc \in {"exec", "done"} /\ EachCallWithinItsCap) =>
        /\ surplus_pool + Consumed = PlannedForProcessed
        /\ Consumed <= PlannedForProcessed

\* a finished run with a boosted node, a node that used its whole cap and
\* tokens left in the pool
Wit_C38_ConservedAcrossBoost ==
    /\ mode = "static" /\ pc = "done"
    /\ \E i \in DOMAIN results :
          /\ ~results[i].skipped
          /\ results[i].tokens_budgeted > PlannedTokens(results[i].subtask_id)
    /\ \E i \in DOMAIN results :
          /\ ~results[i].skipped
          /\ results[i].completion_tokens = results[i].tokens_budgeted
    /\ surplus_pool > 0

(***************************************************************************)
(* C39: in every plan the allocator returns, a skipped allocation has tier *)
(* Verify, max_tokens = 0 and estimated cost 0; a non-skipped allocation   *)
(* has 128 <= max_tokens <= its tier's default cap; a node of complexity   *)
(* Low (initial tier Fast) is never skipped and never changes tier; and a  *)
(* max_tokens below the tier default occurs only when every non-skipped    *)
(* node is at Fast.                                                        *)
(***************************************************************************)
SkippedShape(a) ==
    a.skipped => a.tier = "verify" /\ a.max_tokens = 0 /\ a.estimated_cost_dollars = 0

ActiveShape(a) ==
    ~a.skipped => 128 <= a.max_tokens /\ a.max_tokens <= TIER_MAX_TOKENS(a.tier)

LowStaysFast ==
    \A i \in DOMAIN graph :
        graph[i].complexity = "low" =>
            ~plan.allocations[i].skipped /\ plan.allocations[i].tier = "fast"

SomeCapBelowDefault ==
    \E i \in DOMAIN plan.allocations :
        /\ ~plan.allocations[i].skipped
        /\ plan.allocations[i].max_tokens < TIER_MAX_TOKENS(plan.allocations[i].tier)

AllActiveAtFast ==
    \A i \in DOMAIN plan.allocations :
        ~plan.allocations[i].skipped => plan.allocations[i].tier = "fast"

Thm_C39_PlanShape ==
    pc = "allocated" =>
        /\ \A i \in DOMAIN plan.allocations :
              /\ plan.allocations[i].subtask_id = graph[i].id
              /\ SkippedShape(plan.allocations[i])
              /\ ActiveShape(plan.allocations[i])
        /\ LowStaysFast
        /\ SomeCapBelowDefault => AllActiveAtFast

\* a plan with a skipped node and a Low node scaled down to the floor
Wit_C39_SkippedAndScaledToFloor ==
    /\ pc = "allocated"
    /\ \E i, j \in DOMAIN plan.allocations :
          /\ plan.allocations[i].skipped
          /\ graph[j].complexity = "low"
          /\ plan.allocations[j].max_tokens = 128

(***************************************************************************)
(* C40: the comparison stream under every interleaving of the two worker   *)
(* threads.                                                                *)
(***************************************************************************)
StreamAt(event) == {i \in DOMAIN stream : stream[i].event = event}

WorkerEventsAt == {i \in DOMAIN stream : stream[i].side \in Sides}

TimeoutAt == {i \in DOMAIN stream : stream[i].event = "error" /\ stream[i].side = "timeout"}

BothPostedThreadDone ==
    /\ done_sides = Sides
    /\ \A side \in Sides : threads[side].pc = "done"

PlanIsFirst ==
    stream # << >> => StreamAt("plan") = {1}

ClosingEventsInOrder ==
    /\ \A e \in {"quality", "text_metrics", "done"} : Cardinality(StreamAt(e)) <= 1
    /\ \A i \in StreamAt("text_metrics") : i - 1 \in StreamAt("quality")
    /\ \A i \in StreamAt("done") : i - 1 \in StreamAt("text_metrics") /\ i = Len(stream)
    /\ \A i \in StreamAt("quality") :
          /\ BothPostedThreadDone
          /\ \A j \in WorkerEventsAt : j < i
    /\ StreamAt("thread_done") = {}

TimeoutEndsTheStream ==
    \A i \in TimeoutAt :
        /\ i = Len(stream)
        /\ StreamAt("quality") = {} /\ StreamAt("done") = {}
        /\ pc = "cmp_closed"

ClosedStreamShape ==
    pc = "cmp_closed" =>
        /\ stream # << >>
        /\ \/ Len(stream) \in TimeoutAt
           \/ /\ Len(stream) \in StreamAt("done")
              /\ StreamAt("quality") # {}

NothingAfterTheEnd ==
    (StreamAt("done") # {} \/ TimeoutAt # {}) => stream' = stream

TimeoutOnlyOnEmptyQueue ==
    (TimeoutAt = {} /\ stream' # stream /\ stream'[Len(stream')].side = "timeout")
        => event_q = << >> /\ ~BothPostedThreadDone

\* C40: plan is the first event; quality, text_metrics and done come once
\* each, in that order and next to each other, only after both threads have
\* posted thread_done and after every worker event; nothing is emitted after
\* done; a timed-out wait ends the stream with an error event and no done.
Thm_C40_StreamOrder ==
    /\ [](PlanIsFirst /\ ClosingEventsInOrder /\ TimeoutEndsTheStream /\ ClosedStreamShape)
    /\ [][NothingAfterTheEnd /\ TimeoutOnlyOnEmptyQueue]_vars

\* a closed stream where one thread failed, its error was relayed, events of
\* the two sides are interleaved, and the three closing events still follow
Wit_C40_DoneAfterAFailedThread ==
    /\ pc = "cmp_closed"
    /\ Len(stream) \in StreamAt("done")
    /\ \E i \in StreamAt("error") : stream[i].side = "pyrrhus"
    /\ \E h, i, j \in WorkerEventsAt :
          /\ h < i /\ i < j
          /\ stream[h].side = "baseline" /\ stream[i].side = "pyrrhus"
          /\ stream[j].side = "baseline"

\* a stream closed by the timeout while a thread was still running
Wit_C40_TimedOut ==
    /\ Len(stream) \in TimeoutAt
    /\ WorkerEventsAt # {}
    /\ \E side \in Sides : threads[side].pc = "run"

=============================================================================
